---- MODULE Spec2Model ----
(***************************************************************************)
(* Verification model of frappe_ai: the managed-transport orchestration    *)
(* run (api/tool_orchestrator.py), the Tool Gateway client                 *)
(* (api/mcp_client.py) and the multi-turn direct loop of the design.       *)
(***************************************************************************)
EXTENDS Integers, Sequences, FiniteSets, TLC

\* ------------------------------------------------------------------ bounds
\* longest provider trace (response.output) the model enumerates
MaxTrace == 3
\* Tool Gateway client calls made in one behaviour
MaxCalls == 3
\* turn budget N of the direct loop
MaxTurns == 3
\* most tool calls the LLM requests in one assistant turn
MaxToolCalls == 2
MaxIngest == 2
MaxOutput == 5
MaxEntries == 2
MaxStarts == 3
MaxKeys == 3

\* ------------------------------------------------------------------ strings
\* A Python str is a sequence of one-character (or opaque multi-character)
\* tokens; " " is the only whitespace token of the model.
Whitespace == {" "}

RECURSIVE LStrip(_)
LStrip(s) == IF s # <<>> /\ Head(s) \in Whitespace THEN LStrip(Tail(s)) ELSE s

RECURSIVE RStrip(_)
RStrip(s) ==
    IF s # <<>> /\ s[Len(s)] \in Whitespace THEN RStrip(SubSeq(s, 1, Len(s) - 1)) ELSE s

\* str.strip()
Strip(s) == RStrip(LStrip(s))

\* the literal "\\n\\n" of the source: backslash, n, backslash, n (no newline)
Separator == <<"\\", "n", "\\", "n">>

\* str.startswith
StartsWith(s, p) == Len(s) >= Len(p) /\ SubSeq(s, 1, Len(p)) = p

\* ------------------------------------------------------------------ values
None == "None"
NoExc == "no exception"

\* a content part whose `text` key is present with the value None
NoneText == <<None>>

\* texts an output_text content part can carry
Texts == {<<>>, <<" ">>, <<"4">>, <<" ", "o", "k">>}

ToolNames == {"get_weather"}

\* Items of response.output after model_dump(exclude_unset=True):
\*   type    the item's `type` (None: the key is absent)
\*   error   whether the item carries a truthy `error`
\*   role    the role of a message item
\*   content the type of the one part of a message item's content list
\*           (None: the list is empty or absent)
\*   text    the text of that part
\*   name    the tool name of an mcp_call item
\*   tools   the tool names of an mcp_list_tools item
Item(type, error, role, content, text, name, tools) ==
    [type |-> type, error |-> error, role |-> role, content |-> content,
     text |-> text, name |-> name, tools |-> tools]

Items ==
    {Item("mcp_list_tools", e, None, None, <<>>, None, t) :
        e \in BOOLEAN, t \in {<<>>, <<"get_weather">>}}
    \cup {Item("mcp_call", e, None, None, <<>>, n, <<>>) : e \in BOOLEAN, n \in ToolNames}
    \cup {Item("message", FALSE, "assistant", "output_text", t, None, <<>>) :
            t \in Texts \cup {NoneText}}
    \cup {Item("message", TRUE, "assistant", "output_text", <<"4">>, None, <<>>),
          Item("message", FALSE, "assistant", "refusal", <<"4">>, None, <<>>),
          Item("message", FALSE, "assistant", None, <<>>, None, <<>>),
          Item("message", FALSE, "user", "output_text", <<"4">>, None, <<>>),
          Item("reasoning", FALSE, None, None, <<>>, None, <<>>),
          Item(None, FALSE, None, None, <<>>, None, <<>>)}

Traces == UNION {[1..n -> Items] : n \in 0..MaxTrace}

\* a LogStep dict
Step(name, status, data) == [step |-> name, status |-> status, data |-> data]

VARIABLES
    pc,                   \* position of run_tool_orchestration
    settings,             \* the AI Setting document read by get_ai_settings
    output,               \* response_obj.output
    pos,                  \* index of the item the normalization loop is at
    initial_log,          \* log_container of openai_responses_call
    fmt_log,              \* `log` local to format_openai_output_to_log
    final_response_text,  \* its accumulator
    exc,                  \* str(e) of the exception in flight or handled
    result,               \* the returned dict (None before the return)
    llm_calls,            \* calls the run made to the LLM provider
    gateway_requests,     \* requests the run itself sent to the Tool Gateway
    m_pc,                 \* position of the Tool Gateway client call
    m_method,             \* JSON-RPC method of the call in flight
    m_request_id,         \* its request_id
    m_calls,              \* client calls made so far (the uuid4 source)
    m_posts,              \* HTTP requests the call in flight has sent
    m_reply,              \* what the transport answered
    m_outcome,            \* what the client call returned or raised
    m_surfaced,           \* the failures the client's callers have been raised so far
    m_headers,            \* the headers of the session the last request was posted with
    d_pc,                 \* position of the direct loop
    d_turn,               \* LLM turns started
    d_messages,           \* the conversation
    d_pending,            \* tool calls of the current turn not yet executed
    d_log,                \* the execution log
    d_llm_posts,          \* requests sent to the direct LLM provider
    d_rpc,                \* Tool Gateway calls made by the loop
    d_failed,             \* call ids whose tool invocation failed
    d_result,             \* the returned OrchestrationResult
    l_pc,                 \* position of a call on the direct LLM transport
    l_fn,                 \* the function called
    l_calls,              \* calls made so far
    l_posts,              \* HTTP requests the call in flight has sent
    l_key,                \* key_provisioned as the call read it
    l_timeout,            \* the timeout argument of the request in flight
    l_http,               \* what the provider answered
    l_outcome,            \* what the function returned or raised
    l_surfaced,           \* the HTTP failures the callers have been raised so far
    s_docs,               \* the Sales Conversation table, by document name
    s_ingest,             \* the ingest_message calls under way
    s_ingested,           \* ingest_message calls started so far
    s_queue,              \* the enqueued process_message jobs not yet started
    s_jobs,               \* what each worker is running
    s_sent,               \* the messages delivered to customers, in order
    s_errors,             \* what frappe.log_error was called with
    c_runs,               \* the concurrent runs of run_tool_orchestration: position and locals
    c_lists,              \* the list objects the runs append their steps to
    c_results,            \* what each run returned
    x_pc,                 \* position of the decide-then-execute run
    x_output,             \* the text the LLM answered the decision prompt with
    x_decision,           \* the parsed decision
    x_rpc,                \* tool invocations made by the run
    x_result,             \* the returned OrchestrationResult
    h_pc,                 \* position of the communication hook
    h_doc,                \* the Communication the hook was triggered for
    h_call,               \* the ingest_message call the hook made, if any
    p_enabled,            \* whether AI Setting enables the tool server, all fields set
    p_records,            \* the MCP Server Process documents
    p_alive,              \* pids of the live processes the watchdog launched
    p_started,            \* processes launched so far
    p_jobs,               \* the invocations of check_and_manage_mcp_server
    k_pc,                 \* position of a save of AI Setting
    k_master_key,         \* whether openrouter_provisioning_key is configured
    k_stored,             \* the AI Setting as stored
    k_doc,                \* the document being saved
    k_remote,             \* key hashes that exist at the provider
    k_keys                \* keys the provider has created so far

run_vars ==
    <<pc, settings, output, pos, initial_log, fmt_log, final_response_text, exc, result,
      llm_calls, gateway_requests>>

mcp_vars ==
    <<m_pc, m_method, m_request_id, m_calls, m_posts, m_reply, m_outcome, m_surfaced,
      m_headers>>

direct_vars == <<d_pc, d_turn, d_messages, d_pending, d_log, d_llm_posts, d_rpc, d_failed, d_result>>

llm_vars == <<l_pc, l_fn, l_calls, l_posts, l_key, l_timeout, l_http, l_outcome, l_surfaced>>

sales_vars == <<s_docs, s_ingest, s_ingested, s_queue, s_jobs, s_sent, s_errors>>

conc_vars == <<c_runs, c_lists, c_results>>

decide_vars == <<x_pc, x_output, x_decision, x_rpc, x_result>>
hook_vars == <<h_pc, h_doc, h_call>>
watchdog_vars == <<p_enabled, p_records, p_alive, p_started, p_jobs>>
key_vars == <<k_pc, k_master_key, k_stored, k_doc, k_remote, k_keys>>

vars == <<run_vars, mcp_vars, direct_vars, llm_vars, sales_vars, conc_vars, decide_vars, hook_vars, watchdog_vars, key_vars>>

\* ------------------------------------------------------------------ managed run
\* `except Exception` catches every exception kind raised in the try block
HandlerCatchesOnlyApiErrors(message) == message = "APIError"
HandlerCatches(message) == TRUE

\* raise inside the try block of run_tool_orchestration
Raise(message) ==
    /\ exc' = message
    /\ pc' = IF HandlerCatches(message) THEN "except" ELSE "raised"

InitRun ==
    /\ pc = "start"
    /\ settings = None
    /\ output = <<>>
    /\ pos = 1
    /\ initial_log = <<>>
    /\ fmt_log = <<>>
    /\ final_response_text = <<>>
    /\ exc = NoExc
    /\ result = None
    /\ llm_calls = 0
    /\ gateway_requests = 0

\* settings = get_ai_settings()
GetAiSettings ==
    /\ pc = "start"
    /\ \/ /\ \E k \in BOOLEAN, u \in BOOLEAN :
                settings' = [openai_api_key |-> k, mcp_server_url |-> u]
          /\ pc' = "prepare"
          /\ exc' = exc
       \/ /\ Raise("DoesNotExistError")
          /\ settings' = settings
    /\ UNCHANGED <<output, pos, initial_log, fmt_log, final_response_text, result>>
    /\ UNCHANGED <<llm_calls, gateway_requests>>
    /\ UNCHANGED <<mcp_vars, direct_vars, llm_vars, sales_vars, conc_vars, decide_vars, hook_vars, watchdog_vars, key_vars>>

\* openai_responses_call up to the log_container.append
LlmCallStep == Step(<<"LLM Call">>, "info", [model |-> "gpt-4.1", message_count |-> 1])

OpenaiResponsesCallPrepare ==
    /\ pc = "prepare"
    /\ IF ~settings.openai_api_key
         THEN Raise("OpenAI API key is not set in AI Settings.") /\ initial_log' = initial_log
       ELSE IF ~settings.mcp_server_url
         THEN Raise("MCP Server URL is not set in AI Settings.") /\ initial_log' = initial_log
       ELSE /\ initial_log' = Append(initial_log, LlmCallStep)
            /\ pc' = "create"
            /\ exc' = exc
    /\ UNCHANGED <<settings, output, pos, fmt_log, final_response_text, result>>
    /\ UNCHANGED <<llm_calls, gateway_requests>>
    /\ UNCHANGED <<mcp_vars, direct_vars, llm_vars, sales_vars, conc_vars, decide_vars, hook_vars, watchdog_vars, key_vars>>

\* the calls to client.responses.create that openai_responses_call makes
\* (a call is counted as one request; the SDK's transport is below the model)
CreateCallsWithRetry(failed) == IF failed THEN 2 ELSE 1
CreateCalls(failed) == 1

\* client.responses.create(...): the provider answers with a trace or the
\* call raises
ResponsesCreate ==
    /\ pc = "create"
    /\ \/ /\ \E t \in Traces : output' = t
          /\ pc' = "format"
          /\ exc' = exc
          /\ llm_calls' = llm_calls + CreateCalls(FALSE)
       \/ /\ Raise("APIError")
          /\ output' = output
          /\ llm_calls' = llm_calls + CreateCalls(TRUE)
    /\ UNCHANGED <<settings, pos, initial_log, fmt_log, final_response_text, result>>
    /\ UNCHANGED gateway_requests
    /\ UNCHANGED <<mcp_vars, direct_vars, llm_vars, sales_vars, conc_vars, decide_vars, hook_vars, watchdog_vars, key_vars>>

\* item_dict.get('type', 'Unknown Step').replace('_', ' ').title()
TitleOf(type) ==
    CASE type = "mcp_list_tools" -> <<"Mcp List Tools">>
      [] type = "mcp_call" -> <<"Mcp Call">>
      [] type = "message" -> <<"Message">>
      [] type = "reasoning" -> <<"Reasoning">>

\* the step name a loop iteration ends with
StepName(item) ==
    CASE item.type = "mcp_list_tools" -> <<"List Tools (sentrafrappe)">>
      [] item.type = "mcp_call" -> <<"Execute Tool: ", item.name>>
      [] item.type = "message" -> <<"Assistant Message">>
      [] item.type = None -> <<"Unknown Step">>
      [] OTHER -> TitleOf(item.type)

\* status = 'success', or 'error' when the item carries a truthy error
StepStatus(item) == IF item.error THEN "error" ELSE "success"

\* text_content of an assistant message: the texts of its output_text parts
TextContent(item) == IF item.content = "output_text" THEN item.text ELSE <<>>

ErrorData(item) == IF item.error THEN [error |-> "item error"] ELSE <<>>

StepData(item) ==
    CASE item.type = "mcp_list_tools" ->
            ErrorData(item) @@ [tools_found |-> Len(item.tools), tool_names |-> item.tools]
      [] item.type = "mcp_call" -> ErrorData(item) @@ [tool_name |-> item.name]
      [] item.type = "message" ->
            ErrorData(item) @@
            [message_length |-> Len(TextContent(item)), has_content |-> TRUE,
             preview |-> TextContent(item)]
      [] OTHER -> ErrorData(item)

\* whether the iteration reaches log.append (no `continue`)
LoggedAll(item) == TRUE
Logged(item) ==
    item.type = "message" =>
        /\ item.role = "assistant"
        /\ item.content # None
        /\ Strip(TextContent(item)) # <<>>

\* whether the iteration raises: text_content += None
FormatRaises(item) ==
    /\ item.type = "message"
    /\ item.role = "assistant"
    /\ item.content = "output_text"
    /\ item.text = NoneText

\* the Tool Gateway requests an iteration sends: none, the items are records
\* of what the provider already did and the loop only reads them
GatewayRequests(item) == 0

\* one iteration of the loop of format_openai_output_to_log
FormatItem ==
    /\ pc = "format"
    /\ pos <= Len(output)
    /\ LET item == output[pos] IN
        IF FormatRaises(item)
          THEN /\ Raise("TypeError")
               /\ UNCHANGED <<pos, fmt_log, final_response_text, gateway_requests>>
          ELSE /\ pos' = pos + 1
               /\ fmt_log' = IF Logged(item)
                               THEN Append(fmt_log, Step(StepName(item), StepStatus(item), StepData(item)))
                               ELSE fmt_log
               /\ final_response_text' =
                    IF item.type = "message" /\ Logged(item)
                      THEN final_response_text \o TextContent(item) \o Separator
                      ELSE final_response_text
               /\ gateway_requests' = gateway_requests + GatewayRequests(item)
               /\ UNCHANGED <<pc, exc>>
    /\ UNCHANGED <<settings, output, initial_log, result, llm_calls>>
    /\ UNCHANGED <<mcp_vars, direct_vars, llm_vars, sales_vars, conc_vars, decide_vars, hook_vars, watchdog_vars, key_vars>>

\* any(step['status'] == 'error' for step in log)
HasErrorAll(l) == \A i \in 1..Len(l) : l[i].status = "error"
HasError(l) == \E i \in 1..Len(l) : l[i].status = "error"

\* len([step for step in log if step['step'].startswith('Execute Tool:')])
ToolCalls(l) == Cardinality({i \in 1..Len(l) : StartsWith(l[i].step, <<"Execute Tool: ">>)})

DefaultMessage == <<"The process completed, but no final answer was generated.">>

CompletionStatusSwapped(has_error) == IF has_error THEN "success" ELSE "completed_with_errors"
CompletionStatus(has_error) == IF ~has_error THEN "success" ELSE "completed_with_errors"

\* if not final_response and not has_error: the default message
SubstituteAlways(final_response, has_error) ==
    IF final_response = <<>> THEN DefaultMessage ELSE final_response
SubstituteDefault(final_response, has_error) ==
    IF final_response = <<>> /\ ~has_error THEN DefaultMessage ELSE final_response

\* the return of format_openai_output_to_log and the rest of the try block
Complete ==
    /\ pc = "format"
    /\ pos > Len(output)
    /\ LET final_response == Strip(final_response_text)
           log == initial_log \o fmt_log
           has_error == HasError(log)
           done == Step(<<"Orchestration Complete">>, CompletionStatus(has_error),
                        [total_steps |-> Len(log), tool_calls |-> ToolCalls(log),
                         final_response |-> final_response])
       IN result' = [log |-> Append(log, done),
                     final_response |-> SubstituteDefault(final_response, has_error),
                     error |-> has_error]
    /\ pc' = "returned"
    /\ UNCHANGED <<settings, output, pos, initial_log, fmt_log, final_response_text, exc>>
    /\ UNCHANGED <<llm_calls, gateway_requests>>
    /\ UNCHANGED <<mcp_vars, direct_vars, llm_vars, sales_vars, conc_vars, decide_vars, hook_vars, watchdog_vars, key_vars>>

\* the log the except clause returns
FailureLog(accumulated, message) ==
    <<Step(<<"Orchestration Failed">>, "error", [error |-> message])>>

\* except Exception as e: ... return {...}
Except ==
    /\ pc = "except"
    /\ result' = [log |-> FailureLog(initial_log \o fmt_log, exc),
                  final_response |->
                      <<"**Orchestration Failed**\n\nAn unhandled error occurred: ", exc>>,
                  error |-> TRUE]
    /\ pc' = "returned"
    /\ UNCHANGED <<settings, output, pos, initial_log, fmt_log, final_response_text, exc>>
    /\ UNCHANGED <<llm_calls, gateway_requests>>
    /\ UNCHANGED <<mcp_vars, direct_vars, llm_vars, sales_vars, conc_vars, decide_vars, hook_vars, watchdog_vars, key_vars>>

\* ------------------------------------------------------------------ Tool Gateway client
\* what a function returned or raised
Return(value) == [kind |-> "return", value |-> value]
Raised(exception) == [kind |-> "raise", value |-> exception]

NoId == 0
Methods == {"tools/call", "tools/list", "resources/read"}

\* what the transport does with one POST: a JSON body (its `id`, NoId when
\* the key is missing, and whether it carries `result` or `error`), a
\* timeout, a refused connection, a non-2xx status, or a body that is not JSON
JsonReply(id, member) == [kind |-> "json", id |-> id, member |-> member]
Replies ==
    {JsonReply(i, m) : i \in 0..MaxCalls, m \in {"result", "error"}}
    \cup {[kind |-> k, id |-> NoId, member |-> None] :
            k \in {"timeout", "refused", "http_error", "not_json"}}

\* a header of a session
Header(name, value) == [name |-> name, value |-> value]

\* the headers of a new requests.Session()
NewSessionHeaders ==
    {Header("User-Agent", "python-requests"), Header("Accept-Encoding", "gzip, deflate"),
     Header("Accept", "*/*"), Header("Connection", "keep-alive")}

\* session.headers.clear()
ClearKeepingDefaults(headers) == headers
Clear(headers) == {}

\* session.headers.update({...})
Update(headers, new) ==
    {h \in headers : \A n \in new : n.name # h.name} \cup new

RequiredHeaders ==
    {Header("Content-Type", "application/json"),
     Header("Accept", "application/json, text/event-stream")}

\* the headers of the session _make_mcp_post_request posts with
SessionHeaders == Update(Clear(NewSessionHeaders), RequiredHeaders)

\* _make_mcp_post_request: one session.post, then response.json() or the
\* exception the failure is mapped to
MakeMcpPostRequest(reply) ==
    CASE reply.kind = "timeout" -> Raised("TimeoutError")
      [] reply.kind = "refused" -> Raised("ConnectionError: refused")
      [] reply.kind = "http_error" -> Raised("HTTPError")
      [] reply.kind = "not_json" -> Raised("JSONDecodeError")
      [] reply.kind = "json" -> Return(reply)

MismatchedId == Raised("ConnectionError: mismatched ID")

\* the class of the exception object a raise statement of the client builds
ClassOf(exception) ==
    CASE exception = "TimeoutError" -> "TimeoutError"
      [] exception = "ConnectionError: refused" -> "ConnectionError"
      [] exception = "ConnectionError: mismatched ID" -> "ConnectionError"
      [] exception = "ConnectionError: Could not get MCP server port" -> "ConnectionError"
      [] exception = "HTTPError" -> "HTTPError"
      [] exception = "JSONDecodeError" -> "JSONDecodeError"

\* requests sent again after the first one failed: the except clauses of
\* _make_mcp_post_request raise at once
ResendsOnTimeout(reply) == IF reply.kind = "timeout" THEN 1 ELSE 0
Resends(reply) == 0

\* call_mcp_tool after the payload is built
CallMcpToolIgnoresId(request_id, reply) == MakeMcpPostRequest(reply)
CallMcpToolAcceptsMissingId(request_id, reply) ==
    LET r == MakeMcpPostRequest(reply) IN
    IF r.kind = "raise" THEN r
    ELSE IF r.value.id # NoId /\ r.value.id # request_id THEN MismatchedId
    ELSE r
CallMcpTool(request_id, reply) ==
    LET r == MakeMcpPostRequest(reply) IN
    IF r.kind = "raise" THEN r
    ELSE IF r.value.id # request_id THEN MismatchedId
    ELSE r

\* list_mcp_tools after the payload is built
ListMcpTools(request_id, reply) ==
    LET r == MakeMcpPostRequest(reply) IN
    IF r.kind = "raise" THEN r
    ELSE IF r.value.id # request_id THEN MismatchedId
    ELSE r

\* read_mcp_resource after the payload is built
ReadMcpResource(request_id, reply) ==
    LET r == MakeMcpPostRequest(reply) IN
    IF r.kind = "raise" THEN r
    ELSE IF r.value.id # request_id THEN MismatchedId
    ELSE r

ClientCall(method, request_id, reply) ==
    CASE method = "tools/call" -> CallMcpTool(request_id, reply)
      [] method = "tools/list" -> ListMcpTools(request_id, reply)
      [] method = "resources/read" -> ReadMcpResource(request_id, reply)

NoReply == [kind |-> None, id |-> NoId, member |-> None]
NoOutcome == [kind |-> None, value |-> None]

InitMcp ==
    /\ m_pc = "idle"
    /\ m_method = None
    /\ m_request_id = NoId
    /\ m_calls = 0
    /\ m_posts = 0
    /\ m_reply = NoReply
    /\ m_outcome = NoOutcome
    /\ m_surfaced = {}
    /\ m_headers = {}

\* a client function is called: the settings are read, request_id is a
\* fresh uuid4 and the payload is posted
McpSend ==
    /\ m_pc = "idle"
    /\ m_calls < MaxCalls
    /\ \E method \in Methods :
        /\ m_method' = method
        /\ m_calls' = m_calls + 1
        /\ m_reply' = NoReply
        /\ \/ /\ m_request_id' = NoId
              /\ m_outcome' = Raised("ConnectionError: Could not get MCP server port")
              /\ m_posts' = 0
              /\ m_headers' = m_headers
              /\ m_pc' = "done"
           \/ /\ m_request_id' = m_calls + 1
              /\ m_outcome' = NoOutcome
              /\ m_posts' = 1
              /\ m_headers' = SessionHeaders
              /\ m_pc' = "sent"
    /\ UNCHANGED m_surfaced
    /\ UNCHANGED <<run_vars, direct_vars, llm_vars, sales_vars, conc_vars, decide_vars, hook_vars, watchdog_vars, key_vars>>

\* which of the failures of a request a reply is: a timeout, a refused
\* connection, a non-2xx status, a protocol failure (a body that is not
\* JSON, or an envelope whose id is not the request's), or none
FailureKind(request_id, reply) ==
    CASE reply.kind = "timeout" -> "timeout"
      [] reply.kind = "refused" -> "connection refused"
      [] reply.kind = "http_error" -> "HTTP status"
      [] reply.kind = "not_json" -> "protocol"
      [] reply.kind = "json" /\ reply.id # request_id -> "protocol"
      [] OTHER -> None

\* the transport answers and the client function returns or raises
McpReceive ==
    /\ m_pc = "sent"
    /\ \E reply \in Replies :
        LET outcome == ClientCall(m_method, m_request_id, reply) IN
        /\ m_reply' = reply
        /\ m_outcome' = outcome
        /\ m_posts' = m_posts + Resends(reply)
        /\ m_surfaced' =
             IF outcome.kind = "raise"
               THEN m_surfaced \cup {[failure |-> FailureKind(m_request_id, reply),
                                      class |-> ClassOf(outcome.value)]}
               ELSE m_surfaced
    /\ m_pc' = "done"
    /\ UNCHANGED <<m_method, m_request_id, m_calls, m_headers>>
    /\ UNCHANGED <<run_vars, direct_vars, llm_vars, sales_vars, conc_vars, decide_vars, hook_vars, watchdog_vars, key_vars>>

\* the caller goes on to its next client call
McpDone ==
    /\ m_pc = "done"
    /\ m_pc' = "idle"
    /\ UNCHANGED <<m_method, m_request_id, m_calls, m_posts, m_reply, m_outcome, m_surfaced,
                   m_headers>>
    /\ UNCHANGED <<run_vars, direct_vars, llm_vars, sales_vars, conc_vars, decide_vars, hook_vars, watchdog_vars, key_vars>>

\* ------------------------------------------------------------------ direct LLM transport
\* what the direct provider answers to one chat-completion POST: an
\* assistant message (text, or tool calls by tool name) or a failed request
LlmReplies ==
    {[kind |-> "message", content |-> <<"4">>, tools |-> <<>>]}
    \cup {[kind |-> "message", content |-> <<>>, tools |-> t] :
            t \in UNION {[1..n -> ToolNames] : n \in 1..MaxToolCalls}}
    \cup {[kind |-> "failure", content |-> <<>>, tools |-> <<>>]}

\* requests.post calls one openrouter_call makes: none without a
\* provisioned key, otherwise one (no retry)
OpenrouterPostsWithRetry(key_provisioned) == IF key_provisioned THEN 2 ELSE 0
OpenrouterPosts(key_provisioned) == IF key_provisioned THEN 1 ELSE 0

\* openrouter_call: the assistant message, or the exception re-raised
OpenrouterCall(key_provisioned, reply) ==
    IF ~key_provisioned
      THEN Raised("OpenRouter API key has not been provisioned for this site.")
    ELSE IF reply.kind = "failure" THEN Raised("RequestException")
    ELSE Return(reply)

\* ------------------------------------------------------------------ direct LLM transport, HTTP failures
NoStatus == 0
LlmFunctions == {"run_model_test", "openrouter_call"}

\* what requests.post and raise_for_status come to: a response with its
\* status code, or no response at all (timeout, refused connection)
HttpOutcomes ==
    {[kind |-> "response", status |-> c] : c \in {200, 401, 403, 500}}
    \cup {[kind |-> "no response", status |-> NoStatus]}
NoHttp == [kind |-> None, status |-> NoStatus]

\* the request failed: a RequestException is raised inside the try block
RequestFailed(http) == http.kind = "no response" \/ http.status >= 400

\* an exception as its catcher sees it
Error(class, message, title, status) ==
    [class |-> class, message |-> message, title |-> title, status |-> status]

\* bool(e.response): e.response is None when there was no response, and a
\* requests.Response is truthy only when its status code is below 400
ResponseTruthy(http) == http.kind = "response" /\ http.status < 400

\* the except clause of run_model_test
ModelTestFailure(http) ==
    IF ResponseTruthy(http) /\ http.status = 401
      THEN Error("ValidationError",
                 "The provided API Key is invalid or has been rejected. Please verify your key and try again.",
                 "Authorization Failed", NoStatus)
      ELSE Error("ValidationError", "Test API call failed for model. Check logs for details.",
                 None, NoStatus)

\* run_model_test
RunModelTest(key_provisioned, http) ==
    IF ~key_provisioned
      THEN Raised(Error("ValidationError", "API key has not been provisioned for this site.",
                        None, NoStatus))
    ELSE IF RequestFailed(http) THEN Raised(ModelTestFailure(http))
    ELSE Return("response")

\* the except clause of openrouter_call: the exception caught is raised
\* again as it is, an HTTPError holding the response for a non-2xx status
OpenrouterFailure(http) ==
    IF http.kind = "response"
      THEN Error("HTTPError", "Error for url", None, http.status)
      ELSE Error("ConnectionError", "no response", None, NoStatus)

\* openrouter_call, by the HTTP outcome of its request
OpenrouterCallHttp(key_provisioned, http) ==
    IF ~key_provisioned
      THEN Raised(Error("PermissionError",
                        "OpenRouter API key has not been provisioned for this site.",
                        None, NoStatus))
    ELSE IF RequestFailed(http) THEN Raised(OpenrouterFailure(http))
    ELSE Return("message")

\* the timeout argument of the function's requests.post, in seconds
NoTimeout == 0
RequestTimeout(fn) ==
    CASE fn = "run_model_test" -> NoTimeout
      [] fn = "openrouter_call" -> 180

\* requests.post calls run_model_test makes: none without a provisioned key
ModelTestPostsUnchecked(key_provisioned) == 1
ModelTestPosts(key_provisioned) == IF key_provisioned THEN 1 ELSE 0

LlmPosts(fn, key_provisioned) ==
    CASE fn = "run_model_test" -> ModelTestPosts(key_provisioned)
      [] fn = "openrouter_call" -> OpenrouterPosts(key_provisioned)

LlmCall(fn, key_provisioned, http) ==
    CASE fn = "run_model_test" -> RunModelTest(key_provisioned, http)
      [] fn = "openrouter_call" -> OpenrouterCallHttp(key_provisioned, http)

InitLlm ==
    /\ l_pc = "idle"
    /\ l_fn = None
    /\ l_calls = 0
    /\ l_posts = 0
    /\ l_key = FALSE
    /\ l_timeout = NoTimeout
    /\ l_http = NoHttp
    /\ l_outcome = NoOutcome
    /\ l_surfaced = {}

\* a function of the direct transport is called: without provisioned key
\* it raises at once, otherwise it posts its request
LlmInvoke ==
    /\ l_pc = "idle"
    /\ l_calls < MaxCalls
    /\ l_calls' = l_calls + 1
    /\ l_http' = NoHttp
    /\ \E fn \in LlmFunctions, key_provisioned \in BOOLEAN :
        /\ l_fn' = fn
        /\ l_key' = key_provisioned
        /\ l_posts' = LlmPosts(fn, key_provisioned)
        /\ IF key_provisioned
             THEN /\ l_timeout' = RequestTimeout(fn)
                  /\ l_outcome' = NoOutcome
                  /\ l_pc' = "sent"
             ELSE /\ l_timeout' = NoTimeout
                  /\ l_outcome' = LlmCall(fn, FALSE, NoHttp)
                  /\ l_pc' = "done"
    /\ UNCHANGED l_surfaced
    /\ UNCHANGED <<run_vars, mcp_vars, direct_vars, sales_vars, conc_vars, decide_vars, hook_vars, watchdog_vars, key_vars>>

\* the provider answers, or the request fails without answer
LlmAnswer ==
    /\ l_pc = "sent"
    /\ \E http \in HttpOutcomes :
        LET outcome == LlmCall(l_fn, TRUE, http) IN
        /\ l_http' = http
        /\ l_outcome' = outcome
        /\ l_surfaced' =
             IF outcome.kind = "raise"
               THEN l_surfaced \cup {[fn |-> l_fn, http |-> http, error |-> outcome.value]}
               ELSE l_surfaced
    /\ l_pc' = "done"
    /\ UNCHANGED <<l_fn, l_calls, l_posts, l_key, l_timeout>>
    /\ UNCHANGED <<run_vars, mcp_vars, direct_vars, sales_vars, conc_vars, decide_vars, hook_vars, watchdog_vars, key_vars>>

\* the caller goes on to its next call
LlmDone ==
    /\ l_pc = "done"
    /\ l_pc' = "idle"
    /\ UNCHANGED <<l_fn, l_calls, l_posts, l_key, l_timeout, l_http, l_outcome, l_surfaced>>
    /\ UNCHANGED <<run_vars, mcp_vars, direct_vars, sales_vars, conc_vars, decide_vars, hook_vars, watchdog_vars, key_vars>>

\* ------------------------------------------------------------------ multi-turn direct loop
\* the replies of the Tool Gateway the loop is run against
LoopReplies(request_id) ==
    {JsonReply(request_id, "result"), JsonReply(NoId, "result"),
     [kind |-> "timeout", id |-> NoId, member |-> None]}

Message(role, content, tool_calls, tool_call_id) ==
    [role |-> role, content |-> content, tool_calls |-> tool_calls, tool_call_id |-> tool_call_id]

NoCall == <<0, 0>>

\* the ToolCallRequests of the assistant turn `turn`
ToolCallRequests(turn, tools) ==
    [k \in 1..Len(tools) |-> [id |-> <<turn, k>>, tool_name |-> tools[k]]]

\* the content of a tool-result message: the keys of its JSON object
ResultPayload == {"result"}
ErrorEnvelope == {"error", "details"}

\* a tool-result message for `call`: the payload on success, the error
\* envelope when the invocation raised
ToolResultDropsFailure(call, outcome) ==
    IF outcome.kind = "return"
      THEN <<Message("tool", ResultPayload, <<>>, call.id)>>
      ELSE <<>>
ToolResult(call, outcome) ==
    <<Message("tool", IF outcome.kind = "return" THEN ResultPayload ELSE ErrorEnvelope,
              <<>>, call.id)>>

\* the last running step marked error, with the exception's message
PatchRunning(l, message) ==
    IF l # <<>> /\ l[Len(l)].status = "running"
      THEN [l EXCEPT ![Len(l)] = Step(@.step, "error", [error |-> message])]
      ELSE l

OrchestrationResult(l, final_response, error) ==
    [log |-> l, final_response |-> final_response, error |-> error]

InitDirect ==
    /\ d_pc = "discover"
    /\ d_turn = 0
    /\ d_messages = <<>>
    /\ d_pending = <<>>
    /\ d_log = <<>>
    /\ d_llm_posts = 0
    /\ d_rpc = 0
    /\ d_failed = {}
    /\ d_result = None

\* step 1 and 2: discover the tools (fatal when it fails or finds none),
\* then seed the conversation
DirectDiscover ==
    /\ d_pc = "discover"
    /\ d_rpc' = d_rpc + 1
    /\ \E reply \in LoopReplies(d_rpc + 1), tools \in SUBSET ToolNames :
        LET listed == ListMcpTools(d_rpc + 1, reply) IN
        IF listed.kind = "raise" \/ tools = {}
          THEN /\ d_log' = Append(d_log, Step(<<"List Tools">>, "error", [tools_found |-> 0]))
               /\ d_result' = OrchestrationResult(d_log', <<"Tool discovery failed.">>, TRUE)
               /\ d_pc' = "returned"
               /\ d_messages' = d_messages
          ELSE /\ d_log' = Append(d_log, Step(<<"List Tools">>, "success",
                                             [tools_found |-> Cardinality(tools)]))
               /\ d_messages' = <<Message("system", <<"policy">>, <<>>, NoCall),
                                  Message("user", <<"query">>, <<>>, NoCall)>>
               /\ d_pc' = "llm"
               /\ d_result' = d_result
    /\ UNCHANGED <<d_turn, d_pending, d_llm_posts, d_failed>>
    /\ UNCHANGED <<run_vars, mcp_vars, llm_vars, sales_vars, conc_vars, decide_vars, hook_vars, watchdog_vars, key_vars>>

\* step 3: a turn starts while budget remains
DirectLlmTurn ==
    /\ d_pc = "llm"
    /\ d_turn < MaxTurns
    /\ d_turn' = d_turn + 1
    /\ d_log' = Append(d_log, Step(<<"LLM Turn">>, "running", [turn |-> d_turn + 1]))
    /\ d_pc' = "calling"
    /\ UNCHANGED <<d_messages, d_pending, d_llm_posts, d_rpc, d_failed, d_result>>
    /\ UNCHANGED <<run_vars, mcp_vars, llm_vars, sales_vars, conc_vars, decide_vars, hook_vars, watchdog_vars, key_vars>>

\* the LLM is called with the whole conversation; its turn is appended; a
\* turn without tool calls ends the run; an exception is caught at the top
DirectLlmCall ==
    /\ d_pc = "calling"
    /\ \E key_provisioned \in BOOLEAN, reply \in LlmReplies :
        LET turn == OpenrouterCall(key_provisioned, reply) IN
        /\ d_llm_posts' = d_llm_posts + OpenrouterPosts(key_provisioned)
        /\ IF turn.kind = "raise"
             THEN /\ d_log' = PatchRunning(d_log, turn.value)
                  /\ d_result' = OrchestrationResult(d_log', <<"Orchestration failed: ", turn.value>>, TRUE)
                  /\ d_pc' = "returned"
                  /\ UNCHANGED <<d_messages, d_pending>>
             ELSE LET calls == ToolCallRequests(d_turn, turn.value.tools) IN
                  /\ d_messages' = Append(d_messages,
                                          Message("assistant", turn.value.content, calls, NoCall))
                  /\ d_log' = Append(d_log, Step(<<"LLM Turn">>, "success", [turn |-> d_turn]))
                  /\ d_pending' = calls
                  /\ IF calls = <<>>
                       THEN /\ d_result' = OrchestrationResult(d_log', turn.value.content, FALSE)
                            /\ d_pc' = "returned"
                       ELSE /\ d_result' = d_result
                            /\ d_pc' = "tools"
    /\ UNCHANGED <<d_turn, d_rpc, d_failed>>
    /\ UNCHANGED <<run_vars, mcp_vars, llm_vars, sales_vars, conc_vars, decide_vars, hook_vars, watchdog_vars, key_vars>>

\* the next pending ToolCallRequest is invoked on the Tool Gateway and its
\* tool-result message appended, the payload on success, the error
\* envelope on failure
DirectExecuteTool ==
    /\ d_pc = "tools"
    /\ d_pending # <<>>
    /\ d_rpc' = d_rpc + 1
    /\ \E reply \in LoopReplies(d_rpc + 1) :
        LET call == Head(d_pending)
            outcome == CallMcpTool(d_rpc + 1, reply)
        IN /\ d_messages' = d_messages \o ToolResult(call, outcome)
           /\ d_log' = Append(d_log, Step(<<"Execute Tool: ", call.tool_name>>,
                                          IF outcome.kind = "return" THEN "success" ELSE "error",
                                          [tool_name |-> call.tool_name]))
           /\ d_failed' = IF reply.kind = "json" /\ reply.id = d_rpc + 1
                            THEN d_failed ELSE d_failed \cup {call.id}
    /\ d_pending' = Tail(d_pending)
    /\ d_pc' = IF Tail(d_pending) = <<>> THEN "llm" ELSE "tools"
    /\ UNCHANGED <<d_turn, d_llm_posts, d_result>>
    /\ UNCHANGED <<run_vars, mcp_vars, llm_vars, sales_vars, conc_vars, decide_vars, hook_vars, watchdog_vars, key_vars>>

\* step 4: the budget is spent without a terminal turn
DirectHalt ==
    /\ d_pc = "llm"
    /\ d_turn >= MaxTurns
    /\ d_result' = OrchestrationResult(d_log, <<"Turn budget exceeded.">>, TRUE)
    /\ d_pc' = "returned"
    /\ UNCHANGED <<d_turn, d_messages, d_pending, d_log, d_llm_posts, d_rpc, d_failed>>
    /\ UNCHANGED <<run_vars, mcp_vars, llm_vars, sales_vars, conc_vars, decide_vars, hook_vars, watchdog_vars, key_vars>>

\* ------------------------------------------------------------------ sales conversation
Workers == {"w1", "w2"}
Channels == {"WhatsApp", "SMS"}
\* what the customer writes: the n-th ingest_message call carries the n-th text
UserMessages == <<"hello", "price?", "thanks", "bye">>
Customer == "customer-1"

\* a message dict of the history
ChatMessage(role, content) == [role |-> role, content |-> content]

\* the conversation_history field: empty, or the text json.dumps wrote
EmptyField == [set |-> FALSE, messages |-> <<>>]
Dumps(history) == [set |-> TRUE, messages |-> history]

\* json.loads(doc.conversation_history) if doc.conversation_history else []
LoadsForgetting(field) == <<>>
Loads(field) == IF field.set THEN field.messages ELSE <<>>

\* history.append({"role": "user", "content": user_message})
WithUserMessage(history, user_message) == Append(history, ChatMessage("user", user_message))

\* items of llm_response_obj.output as process_message reads them
SalesItem(type, role, text, name, error) ==
    [type |-> type, role |-> role, text |-> text, name |-> name, error |-> error]
AssistantSays(text) == SalesItem("message", "assistant", text, None, FALSE)
ToolCalled(name, error) == SalesItem("mcp_call", None, "", name, error)

\* the traces the provider answers a job with
SalesOutputs ==
    {<<>>,
     <<AssistantSays("hi")>>,
     <<ToolCalled("send_whatsapp_message", FALSE), AssistantSays("hi")>>,
     <<ToolCalled("send_whatsapp_message", TRUE), AssistantSays("hi")>>}

\* the loop extracting the assistant's text: the text of the first
\* assistant message that has some
RECURSIVE BotReplyText(_)
BotReplyText(out) ==
    IF out = <<>> THEN ""
    ELSE IF Head(out).type = "message" /\ Head(out).role = "assistant" /\ Head(out).text # ""
      THEN Head(out).text
    ELSE BotReplyText(Tail(out))

SorryText == "Sorry, I encountered an issue and cannot respond at the moment."
ErrorMessage == "I'm sorry, I'm having trouble connecting right now. Please try again in a moment."

\* message_sent: some mcp_call item names a send tool
SendTools == {"send_whatsapp_message", "send_instagram_message"}
MessageSent(out) ==
    \E i \in 1..Len(out) : out[i].type = "mcp_call" /\ out[i].name \in SendTools

\* the send tools the gateway ran to the end while the provider worked
DeliveredByTool(out) ==
    \E i \in 1..Len(out) :
        out[i].type = "mcp_call" /\ out[i].name \in SendTools /\ ~out[i].error

\* channels process_message has a send function for
HasSender(channel) == channel \in {"WhatsApp", "Instagram"}

\* a call of frappe.log_error
ErrorLog(text, docname) == [text |-> text, docname |-> docname]

\* a delivered message
Delivery(docname, text, by) == [docname |-> docname, text |-> text, by |-> by]

\* a Sales Conversation document; `modified` stands for its timestamp and
\* last_interaction is unset until process_message saves the document
NoTime == 0
Doc(channel, field, modified) ==
    [channel |-> channel, customer_identifier |-> Customer, status |-> "Ongoing",
     conversation_history |-> field, modified |-> modified, last_interaction |-> NoTime]

\* now_datetime() at a save of the document: the instant the save also
\* stamps into `modified`
NowDatetime(doc) == doc.modified + 1

\* frappe.db.exists("Sales Conversation", {customer_identifier, channel, status: "Ongoing"})
Matching(channel) ==
    {d \in DOMAIN s_docs :
        /\ s_docs[d].channel = channel
        /\ s_docs[d].customer_identifier = Customer
        /\ s_docs[d].status = "Ongoing"}

NoDoc == 0
IdleJob ==
    [pc |-> "idle", docname |-> NoDoc, user_message |-> "", history |-> <<>>,
     modified |-> 0, output |-> <<>>, bot_reply_text |-> "", failed |-> None,
     delivered |-> 0, apologies |-> 0]

InitSales ==
    /\ s_docs = <<>>
    /\ s_ingest = {}
    /\ s_ingested = 0
    /\ s_queue = <<>>
    /\ s_jobs = [w \in Workers |-> IdleJob]
    /\ s_sent = <<>>
    /\ s_errors = {}

\* ingest_message up to the answer of frappe.db.exists
IngestLookup ==
    /\ s_ingested < MaxIngest
    /\ s_ingested' = s_ingested + 1
    /\ \E channel \in Channels :
        \E found \in (IF Matching(channel) = {} THEN {NoDoc} ELSE Matching(channel)) :
            s_ingest' = s_ingest \cup
                {[id |-> s_ingested + 1, channel |-> channel,
                  user_message |-> UserMessages[s_ingested + 1], doc_name |-> found]}
    /\ UNCHANGED <<s_docs, s_queue, s_jobs, s_sent, s_errors>>
    /\ UNCHANGED <<run_vars, mcp_vars, direct_vars, llm_vars, conc_vars, decide_vars, hook_vars, watchdog_vars, key_vars>>

\* the rest of ingest_message: the document is created when none was
\* found, and the job is enqueued
IngestEnqueue ==
    /\ \E call \in s_ingest :
        LET created == call.doc_name = NoDoc
            doc_name == IF created THEN Len(s_docs) + 1 ELSE call.doc_name
        IN /\ s_docs' = IF created
                          THEN Append(s_docs, Doc(call.channel, EmptyField, 0))
                          ELSE s_docs
           /\ s_queue' = Append(s_queue, [docname |-> doc_name,
                                          user_message |-> call.user_message])
           /\ s_ingest' = s_ingest \ {call}
    /\ UNCHANGED <<s_ingested, s_jobs, s_sent, s_errors>>
    /\ UNCHANGED <<run_vars, mcp_vars, direct_vars, llm_vars, conc_vars, decide_vars, hook_vars, watchdog_vars, key_vars>>

\* a worker of the short queue takes the oldest job (idle workers are
\* interchangeable, so w2 takes it only while w1 is busy): process_message
\* loads the document and its history and appends the user message
JobStart(w) ==
    /\ s_jobs[w].pc = "idle"
    /\ w = "w2" => s_jobs["w1"].pc # "idle"
    /\ s_queue # <<>>
    /\ LET job == Head(s_queue)
           doc == s_docs[job.docname]
       IN s_jobs' = [s_jobs EXCEPT ![w] =
            [IdleJob EXCEPT
                !.pc = "llm",
                !.docname = job.docname,
                !.user_message = job.user_message,
                !.history = WithUserMessage(Loads(doc.conversation_history),
                                            job.user_message),
                !.modified = doc.modified]]
    /\ s_queue' = Tail(s_queue)
    /\ UNCHANGED <<s_docs, s_ingest, s_ingested, s_sent, s_errors>>
    /\ UNCHANGED <<run_vars, mcp_vars, direct_vars, llm_vars, conc_vars, decide_vars, hook_vars, watchdog_vars, key_vars>>

\* openai_responses_call and the extraction of the reply text; a send tool
\* the provider ran has delivered its message by the time the call returns
JobLlm(w) ==
    /\ s_jobs[w].pc = "llm"
    /\ \/ /\ s_jobs' = [s_jobs EXCEPT ![w].pc = "except", ![w].failed = "llm"]
          /\ UNCHANGED <<s_sent, s_errors>>
       \/ \E out \in SalesOutputs :
            LET text == BotReplyText(out) IN
            /\ s_jobs' = [s_jobs EXCEPT
                    ![w].pc = "save",
                    ![w].output = out,
                    ![w].bot_reply_text = IF text = "" THEN SorryText ELSE text,
                    ![w].delivered = IF DeliveredByTool(out) THEN 1 ELSE 0]
            /\ s_sent' = IF DeliveredByTool(out)
                           THEN Append(s_sent, Delivery(s_jobs[w].docname, text, "tool"))
                           ELSE s_sent
            /\ s_errors' = IF text = ""
                             THEN s_errors \cup
                                  {ErrorLog("Sales Bot: LLM response did not contain assistant message content.",
                                            s_jobs[w].docname)}
                             ELSE s_errors
    /\ UNCHANGED <<s_docs, s_ingest, s_ingested, s_queue>>
    /\ UNCHANGED <<run_vars, mcp_vars, direct_vars, llm_vars, conc_vars, decide_vars, hook_vars, watchdog_vars, key_vars>>

\* doc.save refuses a document that was saved by someone else since it was
\* loaded (TimestampMismatchError)
CheckIfLatest(loaded, stored) == loaded = stored

\* the assistant message is appended and the document saved and committed
JobSave(w) ==
    /\ s_jobs[w].pc = "save"
    /\ LET job == s_jobs[w]
           history == Append(job.history, ChatMessage("assistant", job.bot_reply_text))
       IN IF CheckIfLatest(job.modified, s_docs[job.docname].modified)
            THEN /\ s_docs' = [s_docs EXCEPT
                        ![job.docname].conversation_history = Dumps(history),
                        ![job.docname].last_interaction = NowDatetime(s_docs[job.docname]),
                        ![job.docname].modified = @ + 1]
                 /\ s_jobs' = [s_jobs EXCEPT ![w].pc = "deliver", ![w].history = history]
            ELSE /\ s_jobs' = [s_jobs EXCEPT ![w].pc = "except", ![w].failed = "save"]
                 /\ s_docs' = s_docs
    /\ UNCHANGED <<s_ingest, s_ingested, s_queue, s_sent, s_errors>>
    /\ UNCHANGED <<run_vars, mcp_vars, direct_vars, llm_vars, conc_vars, decide_vars, hook_vars, watchdog_vars, key_vars>>

\* the fallback delivery: when no send tool was called and the channel has
\* a send function, the reply is sent, which may raise
JobDeliver(w) ==
    /\ s_jobs[w].pc = "deliver"
    /\ LET job == s_jobs[w] IN
        IF ~MessageSent(job.output) /\ HasSender(s_docs[job.docname].channel)
          THEN \/ /\ s_sent' = Append(s_sent, Delivery(job.docname, job.bot_reply_text, "fallback"))
                  /\ s_jobs' = [s_jobs EXCEPT ![w].pc = "finished",
                                              ![w].delivered = @ + 1]
               \/ /\ s_sent' = s_sent
                  /\ s_jobs' = [s_jobs EXCEPT ![w].pc = "except", ![w].failed = "delivery"]
          ELSE /\ s_sent' = s_sent
               /\ s_jobs' = [s_jobs EXCEPT ![w].pc = "finished"]
    /\ UNCHANGED <<s_docs, s_ingest, s_ingested, s_queue, s_errors>>
    /\ UNCHANGED <<run_vars, mcp_vars, direct_vars, llm_vars, conc_vars, decide_vars, hook_vars, watchdog_vars, key_vars>>

\* the sends of the apology the except clause makes on a channel with a
\* send function: one frappe.call, not repeated when it fails
ApologySendsWithRetry(channel) == IF HasSender(channel) THEN 2 ELSE 0
ApologySends(channel) == IF HasSender(channel) THEN 1 ELSE 0

\* except Exception: the error is logged and the apology is sent; a failure
\* of that send is logged and goes no further
JobExcept(w) ==
    /\ s_jobs[w].pc = "except"
    /\ LET job == s_jobs[w]
           logged == s_errors \cup
                     {ErrorLog("Sales Bot: Error during LLM call or processing.", job.docname)}
       IN IF HasSender(s_docs[job.docname].channel)
            THEN \/ /\ s_sent' = Append(s_sent, Delivery(job.docname, ErrorMessage, "except"))
                    /\ s_errors' = logged
                    /\ s_jobs' = [s_jobs EXCEPT ![w].pc = "finished",
                                                ![w].apologies =
                                                    @ + ApologySends(s_docs[job.docname].channel)]
                 \/ /\ s_sent' = s_sent
                    /\ s_errors' = logged \cup
                                    {ErrorLog("Failed to send error message", job.docname)}
                    /\ s_jobs' = [s_jobs EXCEPT ![w].pc = "finished"]
            ELSE /\ s_sent' = s_sent
                 /\ s_errors' = logged
                 /\ s_jobs' = [s_jobs EXCEPT ![w].pc = "finished"]
    /\ UNCHANGED <<s_docs, s_ingest, s_ingested, s_queue>>
    /\ UNCHANGED <<run_vars, mcp_vars, direct_vars, llm_vars, conc_vars, decide_vars, hook_vars, watchdog_vars, key_vars>>

\* process_message returns and the worker is free again
JobEnd(w) ==
    /\ s_jobs[w].pc = "finished"
    /\ s_jobs' = [s_jobs EXCEPT ![w] = IdleJob]
    /\ UNCHANGED <<s_docs, s_ingest, s_ingested, s_queue, s_sent, s_errors>>
    /\ UNCHANGED <<run_vars, mcp_vars, direct_vars, llm_vars, conc_vars, decide_vars, hook_vars, watchdog_vars, key_vars>>

\* ------------------------------------------------------------------ concurrent managed runs
Runs == {"r1", "r2"}

\* the items the provider answers the concurrent runs with
ConcurrentItems ==
    {Item("mcp_call", e, None, None, <<>>, "get_weather", <<>>) : e \in BOOLEAN}
    \cup {Item("message", FALSE, "assistant", "output_text", t, None, <<>>) :
            t \in {<<"4">>, NoneText}}
ConcurrentTraces == UNION {[1..n -> ConcurrentItems] : n \in 0..2}

\* the list object a run's `initial_log = []` and `log = []` name: a new
\* list of the invocation itself
ListOfShared(r) == "r1"
ListOf(r) == r

NoRun ==
    [pc |-> "start", configured |-> FALSE, api_error |-> FALSE, output |-> <<>>,
     pos |-> 1, final_response_text |-> <<>>, exc |-> NoExc]
NoResult == [log |-> <<>>, final_response |-> <<>>, error |-> FALSE]

InitConc ==
    /\ c_runs = [r \in Runs |-> NoRun]
    /\ c_lists = [r \in Runs |-> <<>>]
    /\ c_results = [r \in Runs |-> NoResult]

\* get_ai_settings and openai_responses_call up to the LLM Call step
ConcPrepare(r) ==
    /\ c_runs[r].pc = "start"
    /\ \/ /\ c_runs' = [c_runs EXCEPT ![r].pc = "create", ![r].configured = TRUE]
          /\ c_lists' = [c_lists EXCEPT ![ListOf(r)] = Append(@, LlmCallStep)]
       \/ /\ c_runs' = [c_runs EXCEPT ![r].pc = "except",
                            ![r].exc = "OpenAI API key is not set in AI Settings."]
          /\ c_lists' = c_lists
    /\ UNCHANGED c_results
    /\ UNCHANGED <<run_vars, mcp_vars, direct_vars, llm_vars, sales_vars, decide_vars, hook_vars, watchdog_vars, key_vars>>

\* client.responses.create
ConcCreate(r) ==
    /\ c_runs[r].pc = "create"
    /\ \/ \E t \in ConcurrentTraces :
            c_runs' = [c_runs EXCEPT ![r].pc = "format", ![r].output = t]
       \/ c_runs' = [c_runs EXCEPT ![r].pc = "except", ![r].api_error = TRUE,
                                   ![r].exc = "APIError"]
    /\ UNCHANGED <<c_lists, c_results>>
    /\ UNCHANGED <<run_vars, mcp_vars, direct_vars, llm_vars, sales_vars, decide_vars, hook_vars, watchdog_vars, key_vars>>

\* one iteration of the loop of format_openai_output_to_log
ConcFormat(r) ==
    /\ c_runs[r].pc = "format"
    /\ c_runs[r].pos <= Len(c_runs[r].output)
    /\ LET item == c_runs[r].output[c_runs[r].pos] IN
        IF FormatRaises(item)
          THEN /\ c_runs' = [c_runs EXCEPT ![r].pc = "except", ![r].exc = "TypeError"]
               /\ c_lists' = c_lists
          ELSE /\ c_runs' = [c_runs EXCEPT
                    ![r].pos = @ + 1,
                    ![r].final_response_text =
                        IF item.type = "message" /\ Logged(item)
                          THEN @ \o TextContent(item) \o Separator
                          ELSE @]
               /\ c_lists' =
                    IF Logged(item)
                      THEN [c_lists EXCEPT ![ListOf(r)] =
                              Append(@, Step(StepName(item), StepStatus(item), StepData(item)))]
                      ELSE c_lists
    /\ UNCHANGED c_results
    /\ UNCHANGED <<run_vars, mcp_vars, direct_vars, llm_vars, sales_vars, decide_vars, hook_vars, watchdog_vars, key_vars>>

\* the rest of the try block
ConcComplete(r) ==
    /\ c_runs[r].pc = "format"
    /\ c_runs[r].pos > Len(c_runs[r].output)
    /\ LET final_response == Strip(c_runs[r].final_response_text)
           log == c_lists[ListOf(r)]
           has_error == HasError(log)
           done == Step(<<"Orchestration Complete">>, CompletionStatus(has_error),
                        [total_steps |-> Len(log), tool_calls |-> ToolCalls(log),
                         final_response |-> final_response])
       IN c_results' = [c_results EXCEPT ![r] =
                            [log |-> Append(log, done),
                             final_response |-> SubstituteDefault(final_response, has_error),
                             error |-> has_error]]
    /\ c_runs' = [c_runs EXCEPT ![r].pc = "returned"]
    /\ UNCHANGED c_lists
    /\ UNCHANGED <<run_vars, mcp_vars, direct_vars, llm_vars, sales_vars, decide_vars, hook_vars, watchdog_vars, key_vars>>

\* except Exception as e
ConcExcept(r) ==
    /\ c_runs[r].pc = "except"
    /\ c_results' = [c_results EXCEPT ![r] =
            [log |-> FailureLog(c_lists[ListOf(r)], c_runs[r].exc),
             final_response |->
                 <<"**Orchestration Failed**\n\nAn unhandled error occurred: ", c_runs[r].exc>>,
             error |-> TRUE]]
    /\ c_runs' = [c_runs EXCEPT ![r].pc = "returned"]
    /\ UNCHANGED c_lists
    /\ UNCHANGED <<run_vars, mcp_vars, direct_vars, llm_vars, sales_vars, decide_vars, hook_vars, watchdog_vars, key_vars>>

\* ------------------------------------------------------------------ decide-then-execute run
\* the pieces an answer to the decision prompt is made of: braces, the
\* bodies of a decision, prose and a code fence
OutputTokens == {"{", "}", "ping", "none", "Sure!", "fence"}
DecisionOutputs == UNION {[1..n -> OutputTokens] : n \in 0..MaxOutput}

\* the positions of the first `{` and of the last `}`, 0 when there is none
FirstOpen(text) ==
    IF \E i \in 1..Len(text) : text[i] = "{"
      THEN CHOOSE i \in 1..Len(text) :
             text[i] = "{" /\ \A j \in 1..(i - 1) : text[j] # "{"
      ELSE 0
LastClose(text) ==
    IF \E i \in 1..Len(text) : text[i] = "}"
      THEN CHOOSE i \in 1..Len(text) :
             text[i] = "}" /\ \A j \in (i + 1)..Len(text) : text[j] # "}"
      ELSE 0

\* the substring between the first `{` and the last `}`, both included
ExtractNothing(text) == text
Extract(text) ==
    IF FirstOpen(text) = 0 \/ LastClose(text) < FirstOpen(text)
      THEN <<>>
      ELSE SubSeq(text, FirstOpen(text), LastClose(text))

\* parsing the strict JSON decision: {"tool_name": "ping"}, the same with
\* "tool_params": {}, or the decision that no tool is needed
Decision(ok, tool) == [ok |-> ok, tool |-> tool]
ParseDecision(json) ==
    CASE json = <<"{", "ping", "}">> -> Decision(TRUE, "ping")
      [] json = <<"{", "ping", "{", "}", "}">> -> Decision(TRUE, "ping")
      [] json = <<"{", "none", "}">> -> Decision(TRUE, None)
      [] OTHER -> Decision(FALSE, None)

ParseFailureMessage == <<"The tool decision of the model could not be parsed.">>
ToolFailureMessage == <<"The tool call failed.">>
CannedResponse == <<"No tool is needed to answer this.">>

InitDecide ==
    /\ x_pc = "start"
    /\ x_output = <<>>
    /\ x_decision = Decision(FALSE, None)
    /\ x_rpc = 0
    /\ x_result = NoResult

\* tools are discovered and the LLM is asked for its decision
DecideAsk ==
    /\ x_pc = "start"
    /\ \E text \in DecisionOutputs : x_output' = text
    /\ x_pc' = "parse"
    /\ UNCHANGED <<x_decision, x_rpc, x_result>>
    /\ UNCHANGED <<run_vars, mcp_vars, direct_vars, llm_vars, sales_vars, conc_vars, hook_vars, watchdog_vars, key_vars>>

\* the decision is extracted and parsed; a parse failure aborts the run
DecideParse ==
    /\ x_pc = "parse"
    /\ LET decision == ParseDecision(Extract(x_output)) IN
        /\ x_decision' = decision
        /\ IF ~decision.ok
             THEN /\ x_result' = [log |-> <<Step(<<"Decide Tool">>, "error", <<>>)>>,
                                  final_response |-> ParseFailureMessage, error |-> TRUE]
                  /\ x_pc' = "returned"
           ELSE IF decision.tool = None
             THEN /\ x_result' = [log |-> <<Step(<<"Decide Tool">>, "success", <<>>)>>,
                                  final_response |-> CannedResponse, error |-> FALSE]
                  /\ x_pc' = "returned"
           ELSE /\ x_result' = x_result
                /\ x_pc' = "execute"
    /\ UNCHANGED <<x_output, x_rpc>>
    /\ UNCHANGED <<run_vars, mcp_vars, direct_vars, llm_vars, sales_vars, conc_vars, hook_vars, watchdog_vars, key_vars>>

\* exactly one tool is invoked; on success the LLM composes the answer, on
\* failure the run is aborted
DecideExecute ==
    /\ x_pc = "execute"
    /\ x_rpc' = x_rpc + 1
    /\ \/ x_result' = [log |-> <<Step(<<"Decide Tool">>, "success", <<>>),
                                 Step(<<"Execute Tool: ", x_decision.tool>>, "success", <<>>)>>,
                       final_response |-> <<"4">>, error |-> FALSE]
       \/ x_result' = [log |-> <<Step(<<"Decide Tool">>, "success", <<>>),
                                 Step(<<"Execute Tool: ", x_decision.tool>>, "error", <<>>)>>,
                       final_response |-> ToolFailureMessage, error |-> TRUE]
    /\ x_pc' = "returned"
    /\ UNCHANGED <<x_output, x_decision>>
    /\ UNCHANGED <<run_vars, mcp_vars, direct_vars, llm_vars, sales_vars, conc_vars, hook_vars, watchdog_vars, key_vars>>

\* ------------------------------------------------------------------ communication hook
\* a message entry of the HTML content of a Communication:
\*   sender  the text of its <strong> (NoneText: it has none)
\*   div     whether it has a content <div>
\*   text    the text of that <div>
\*   lines   without a <div>, the lines of the entry's text once the arrows
\*           are removed
Entry(sender, div, text, lines) ==
    [sender |-> sender, div |-> div, text |-> text, lines |-> lines]

Entries ==
    {Entry(sender, TRUE, text, <<>>) :
        sender \in {NoneText, <<" ", "You">>, <<"Ann">>},
        text \in {<<" ", "h", "i">>, <<" ">>}}
    \cup {Entry(sender, FALSE, <<>>, <<sender \o <<" ", "1", "0", ":", "0", "5">>, <<"h", "i", " ">>>>) :
            sender \in {NoneText, <<" ", "You">>, <<"Ann">>}}

\* doc.content: unset, HTML without message entries, or message entries
Content(set, entries, plain) == [set |-> set, entries |-> entries, plain |-> plain]
NoContent == Content(FALSE, <<>>, <<>>)
Contents ==
    {NoContent}
    \cup {Content(TRUE, <<>>, plain) : plain \in {<<"h", "i">>, <<" ">>}}
    \cup {Content(TRUE, entries, <<>>) :
            entries \in UNION {[1..n -> Entries] : n \in 1..MaxEntries}}

\* the Communication documents the hook is triggered for; an empty string
\* stands for a field that is empty or not set
Communications ==
    [sent_or_received : {"Received", "Sent"},
     communication_medium : {"WhatsApp", "Instagram", "SMS", "Email"},
     reference_doctype : {"", "Contact", "Sales Conversation", "Lead"},
     sender_phone : {"", "+15550100"},
     phone_no : {""},
     instagram : {"", "@ann"},
     sender : {"", "ann@example.com"},
     content : Contents]

\* message_entries[-1]
LatestEntryOldest(entries) == entries[1]
LatestEntry(entries) == entries[Len(entries)]

\* extract_latest_message_from_content: (message_text, is_bot_message)
Extracted(message_text, is_bot_message) ==
    [message_text |-> message_text, is_bot_message |-> is_bot_message]
ExtractLatestMessageFromContent(content) ==
    IF content.entries # <<>>
      THEN LET latest_entry == LatestEntry(content.entries)
               is_bot_message ==
                   /\ latest_entry.sender # NoneText
                   /\ Strip(latest_entry.sender) = <<"You">>
           IN IF latest_entry.div
                THEN Extracted(Strip(latest_entry.text), is_bot_message)
              ELSE IF Len(latest_entry.lines) > 1
                THEN Extracted(Strip(latest_entry.lines[Len(latest_entry.lines)]),
                               is_bot_message)
              ELSE Extracted(Strip(latest_entry.lines[1]), is_bot_message)
      ELSE Extracted(Strip(content.plain), FALSE)

\* a or b
Or(a, b) == IF a # "" THEN a ELSE b

\* the customer identifier of the communication medium
CustomerIdentifier(doc) ==
    CASE doc.communication_medium = "WhatsApp" -> Or(doc.sender_phone, doc.phone_no)
      [] doc.communication_medium = "Instagram" -> doc.instagram
      [] OTHER -> Or(Or(doc.sender_phone, doc.phone_no), doc.sender)

SupportedChannels == {"WhatsApp", "Instagram", "SMS", "Phone Call"}

\* what the hook did: the arguments of its ingest_message call, or no call
HookCall(ingest, channel, customer_identifier, user_message, logged) ==
    [ingest |-> ingest, channel |-> channel, customer_identifier |-> customer_identifier,
     user_message |-> user_message, logged |-> logged]
HookSkipped == HookCall(FALSE, "", "", <<>>, FALSE)

\* process_incoming_communication up to its call of ingest_message
ProcessIncomingCommunication(doc) ==
    IF doc.sent_or_received # "Received" THEN HookSkipped
    ELSE IF doc.communication_medium \notin SupportedChannels THEN HookSkipped
    ELSE IF doc.reference_doctype = "Sales Conversation" THEN HookSkipped
    ELSE IF doc.reference_doctype \notin {"Contact", ""} THEN HookSkipped
    ELSE
      LET customer_identifier == CustomerIdentifier(doc)
          extracted == IF doc.content.set
                         THEN ExtractLatestMessageFromContent(doc.content)
                         ELSE Extracted(NoneText, FALSE)
          user_message == extracted.message_text
      IN IF extracted.is_bot_message THEN HookSkipped
         ELSE IF customer_identifier = "" \/ user_message \in {<<>>, NoneText}
           THEN HookCall(FALSE, "", "", <<>>, TRUE)
         ELSE HookCall(TRUE, doc.communication_medium, customer_identifier,
                       user_message, TRUE)

\* no Communication is being handled
NoCommunication ==
    [sent_or_received |-> "Sent", communication_medium |-> "Email",
     reference_doctype |-> "", sender_phone |-> "", phone_no |-> "", instagram |-> "",
     sender |-> "", content |-> NoContent]

InitHook ==
    /\ h_pc = "idle"
    /\ h_doc = NoCommunication
    /\ h_call = HookSkipped

\* a Communication is saved and the hook runs on it
HookTriggered ==
    /\ h_pc = "idle"
    /\ \E doc \in Communications :
        /\ h_doc' = doc
        /\ h_call' = ProcessIncomingCommunication(doc)
    /\ h_pc' = "returned"
    /\ UNCHANGED <<run_vars, mcp_vars, direct_vars, llm_vars, sales_vars, conc_vars, decide_vars, watchdog_vars, key_vars>>

\* the hook has returned
HookReturned ==
    /\ h_pc = "returned"
    /\ h_pc' = "idle"
    /\ h_doc' = NoCommunication
    /\ h_call' = HookSkipped
    /\ UNCHANGED <<run_vars, mcp_vars, direct_vars, llm_vars, sales_vars, conc_vars, decide_vars, watchdog_vars, key_vars>>

\* ------------------------------------------------------------------ tool-server watchdog
\* who runs check_and_manage_mcp_server: the scheduler's cron job and a
\* caller of the whitelisted method
Invokers == {"cron", "call"}

\* an MCP Server Process document
ProcessRecord(status, pid) == [status |-> status, pid |-> pid]

\* frappe.get_all("MCP Server Process", filters={"status": "Running"})
RunningDocs == {d \in DOMAIN p_records : p_records[d].status = "Running"}

\* os.kill(pid, 0) succeeds
IsProcessRunning(pid) == pid # 0 /\ pid \in p_alive

NoPid == 0
IdleInvocation ==
    [pc |-> "idle", doc |-> NoDoc, found |-> "none", launched |-> NoPid,
     returned |-> "none"]

InitWatchdog ==
    /\ p_enabled = FALSE
    /\ p_records = <<>>
    /\ p_alive = {}
    /\ p_started = 0
    /\ p_jobs = [j \in Invokers |-> IdleInvocation]

\* the AI Setting is saved with the tool server enabled or disabled
WatchdogSetting ==
    /\ p_enabled' = ~p_enabled
    /\ UNCHANGED <<p_records, p_alive, p_started, p_jobs>>
    /\ UNCHANGED <<run_vars, mcp_vars, direct_vars, llm_vars, sales_vars, conc_vars, decide_vars, hook_vars, key_vars>>

\* a tool-server process dies
ProcessDies ==
    /\ \E pid \in p_alive : p_alive' = p_alive \ {pid}
    /\ UNCHANGED <<p_enabled, p_records, p_started, p_jobs>>
    /\ UNCHANGED <<run_vars, mcp_vars, direct_vars, llm_vars, sales_vars, conc_vars, decide_vars, hook_vars, key_vars>>

\* check_and_manage_mcp_server up to the settings: nothing is done in
\* developer mode
WatchdogInvoke(j) ==
    /\ p_jobs[j].pc = "idle"
    /\ \E developer_mode \in BOOLEAN :
        p_jobs' = [p_jobs EXCEPT ![j].pc =
            IF developer_mode THEN "done"
            ELSE IF ~p_enabled THEN "stop"
            ELSE "lookup"]
    /\ UNCHANGED <<p_enabled, p_records, p_alive, p_started>>
    /\ UNCHANGED <<run_vars, mcp_vars, direct_vars, llm_vars, sales_vars, conc_vars, decide_vars, hook_vars, key_vars>>

\* stop_all_mcp_processes: every Running document's process is sent
\* SIGTERM when it is alive, and the document is marked Stopped regardless
StopAllMcpProcesses(j) ==
    /\ p_jobs[j].pc = "stop"
    /\ p_alive' = p_alive \ {p_records[d].pid : d \in RunningDocs}
    /\ p_records' = [d \in DOMAIN p_records |->
                        IF d \in RunningDocs
                          THEN ProcessRecord("Stopped", p_records[d].pid)
                          ELSE p_records[d]]
    /\ p_jobs' = [p_jobs EXCEPT ![j].pc = "done"]
    /\ UNCHANGED <<p_enabled, p_started>>
    /\ UNCHANGED <<run_vars, mcp_vars, direct_vars, llm_vars, sales_vars, conc_vars, decide_vars, hook_vars, key_vars>>

\* running_doc = frappe.get_all(..., limit=1): one of the Running
\* documents, whichever the query's order puts first
WatchdogLookup(j) ==
    /\ p_jobs[j].pc = "lookup"
    /\ IF RunningDocs = {}
         THEN p_jobs' = [p_jobs EXCEPT ![j].pc = "start"]
         ELSE \E d \in RunningDocs :
                p_jobs' = [p_jobs EXCEPT ![j].pc = "probe", ![j].doc = d]
    /\ UNCHANGED <<p_enabled, p_records, p_alive, p_started>>
    /\ UNCHANGED <<run_vars, mcp_vars, direct_vars, llm_vars, sales_vars, conc_vars, decide_vars, hook_vars, key_vars>>

\* is_process_running(pid): a healthy process ends the run, a dead one has
\* its document marked Error
WatchdogProbe(j) ==
    /\ p_jobs[j].pc = "probe"
    /\ LET d == p_jobs[j].doc IN
        IF IsProcessRunning(p_records[d].pid)
          THEN /\ p_jobs' = [p_jobs EXCEPT ![j].pc = "done", ![j].found = "alive"]
               /\ p_records' = p_records
          ELSE /\ p_jobs' = [p_jobs EXCEPT ![j].pc = "start", ![j].found = "dead"]
               /\ p_records' = [p_records EXCEPT ![d].status = "Error"]
    /\ UNCHANGED <<p_enabled, p_alive, p_started>>
    /\ UNCHANGED <<run_vars, mcp_vars, direct_vars, llm_vars, sales_vars, conc_vars, decide_vars, hook_vars, key_vars>>

\* start_new_mcp_process: Popen raises; or the process is launched and its
\* document inserted and committed; or the process is launched and the
\* insert or the commit raises. The except clause only logs.
StartNewMcpProcess(j) ==
    /\ p_jobs[j].pc = "start"
    /\ \/ /\ p_jobs' = [p_jobs EXCEPT ![j].pc = "done", ![j].returned = "None"]
          /\ UNCHANGED <<p_records, p_alive, p_started>>
       \/ /\ p_started < MaxStarts
          /\ LET pid == p_started + 1 IN
              /\ p_started' = pid
              /\ p_alive' = p_alive \cup {pid}
              /\ \/ /\ p_records' = Append(p_records, ProcessRecord("Running", pid))
                    /\ p_jobs' = [p_jobs EXCEPT ![j].pc = "done", ![j].launched = pid,
                                                ![j].returned = "process"]
                 \/ /\ p_records' = p_records
                    /\ p_jobs' = [p_jobs EXCEPT ![j].pc = "done", ![j].launched = pid,
                                                ![j].returned = "None"]
    /\ UNCHANGED p_enabled
    /\ UNCHANGED <<run_vars, mcp_vars, direct_vars, llm_vars, sales_vars, conc_vars, decide_vars, hook_vars, key_vars>>

\* check_and_manage_mcp_server returns
WatchdogReturn(j) ==
    /\ p_jobs[j].pc = "done"
    /\ p_jobs' = [p_jobs EXCEPT ![j] = IdleInvocation]
    /\ UNCHANGED <<p_enabled, p_records, p_alive, p_started>>
    /\ UNCHANGED <<run_vars, mcp_vars, direct_vars, llm_vars, sales_vars, conc_vars, decide_vars, hook_vars, key_vars>>

\* ------------------------------------------------------------------ AI Setting key provisioning
\* a key, a key hash or a user id that is None; keys are numbered by the
\* provider in the order it creates them
NoKey == 0

AISetting(enable_openrouter, key_provisioned, site_api_key, key_hash, openrouter_user_id) ==
    [enable_openrouter |-> enable_openrouter, key_provisioned |-> key_provisioned,
     site_api_key |-> site_api_key, key_hash |-> key_hash,
     openrouter_user_id |-> openrouter_user_id]

\* what the provider's answer to POST /keys can be: the request raises
\* (failed), an error status, a body that is not JSON, or JSON with or
\* without `data`, `key` and `data.hash`
KeyResponse(failed, status, json, data, key, hash) ==
    [failed |-> failed, status |-> status, json |-> json, data |-> data,
     key |-> key, hash |-> hash]
ProvisionResponses(new) ==
    {KeyResponse(TRUE, NoStatus, FALSE, FALSE, NoKey, NoKey),
     KeyResponse(FALSE, 500, FALSE, FALSE, NoKey, NoKey),
     KeyResponse(FALSE, 200, FALSE, FALSE, NoKey, NoKey),
     KeyResponse(FALSE, 200, TRUE, FALSE, new, NoKey),
     KeyResponse(FALSE, 200, TRUE, TRUE, NoKey, new),
     KeyResponse(FALSE, 200, TRUE, TRUE, new, NoKey),
     KeyResponse(FALSE, 200, TRUE, TRUE, new, new)}
DeleteResponses ==
    {KeyResponse(TRUE, NoStatus, FALSE, FALSE, NoKey, NoKey),
     KeyResponse(FALSE, 404, FALSE, FALSE, NoKey, NoKey),
     KeyResponse(FALSE, 200, TRUE, FALSE, NoKey, NoKey)}

\* response.raise_for_status() raises
RaiseForStatus(response) == response.status >= 400

\* if not key or not key_hash
KeyMissingNever(key, key_hash) == FALSE
KeyMissing(key, key_hash) == key = NoKey \/ key_hash = NoKey

\* _provision_and_set_key: the document it leaves, or the frappe.throw
ProvisionAndSetKey(doc, master_key, response) ==
    IF ~master_key
      THEN Raised("OpenRouter Provisioning Key is not set in common_sites_config.json.")
    ELSE IF response.failed \/ RaiseForStatus(response) \/ ~response.json
      THEN Raised("Failed to communicate with OpenRouter API.")
    ELSE IF ~response.data
      THEN Raised("Could not parse the response from OpenRouter. Please confirm the format in the logs.")
    ELSE IF KeyMissing(response.key, response.hash)
      THEN Raised("Could not parse the response from OpenRouter. The response format might have changed.")
    ELSE Return(AISetting(doc.enable_openrouter, TRUE, response.key, response.hash,
                          response.hash))

\* _delete_key: the document it leaves, or the frappe.throw
DeleteKey(doc, master_key, response) ==
    IF ~master_key
      THEN Raised("OpenRouter Provisioning Key is not set in common_sites_config.json.")
    ELSE IF response.failed \/ RaiseForStatus(response)
      THEN Raised("Failed to communicate with OpenRouter API.")
    ELSE Return(AISetting(doc.enable_openrouter, FALSE, NoKey, NoKey, NoKey))

InitKey ==
    /\ k_pc = "idle"
    /\ k_master_key = FALSE
    /\ k_stored = AISetting(FALSE, FALSE, NoKey, NoKey, NoKey)
    /\ k_doc = AISetting(FALSE, FALSE, NoKey, NoKey, NoKey)
    /\ k_remote = {}
    /\ k_keys = 0

\* openrouter_provisioning_key is set in or removed from the site config
KeyConfigure ==
    /\ k_pc = "idle"
    /\ k_master_key' = ~k_master_key
    /\ UNCHANGED <<k_pc, k_stored, k_doc, k_remote, k_keys>>
    /\ UNCHANGED <<run_vars, mcp_vars, direct_vars, llm_vars, sales_vars, conc_vars, decide_vars, hook_vars, watchdog_vars>>

\* the AI Setting form is saved with OpenRouter enabled or disabled
KeySave ==
    /\ k_pc = "idle"
    /\ \E enable_openrouter \in BOOLEAN :
        k_doc' = [k_stored EXCEPT !.enable_openrouter = enable_openrouter]
    /\ k_pc' = "before_save"
    /\ UNCHANGED <<k_master_key, k_stored, k_remote, k_keys>>
    /\ UNCHANGED <<run_vars, mcp_vars, direct_vars, llm_vars, sales_vars, conc_vars, decide_vars, hook_vars, watchdog_vars>>

\* before_save; a provider that answered 200 with JSON has created the key,
\* and one that answered the deletion without error has deleted it
BeforeSave ==
    /\ k_pc = "before_save"
    /\ IF k_doc.enable_openrouter /\ ~k_doc.key_provisioned
         THEN /\ k_keys < MaxKeys
              /\ \E response \in ProvisionResponses(k_keys + 1) :
                  LET outcome == ProvisionAndSetKey(k_doc, k_master_key, response)
                      created == k_master_key /\ ~response.failed /\ response.json
                  IN /\ k_keys' = IF created THEN k_keys + 1 ELSE k_keys
                     /\ k_remote' = IF created THEN k_remote \cup {k_keys + 1} ELSE k_remote
                     /\ IF outcome.kind = "raise"
                          THEN k_pc' = "aborted" /\ k_doc' = k_doc
                          ELSE k_pc' = "write" /\ k_doc' = outcome.value
       ELSE IF ~k_doc.enable_openrouter /\ k_doc.key_provisioned
         THEN \E response \in DeleteResponses :
                  LET outcome == DeleteKey(k_doc, k_master_key, response)
                  IN /\ k_keys' = k_keys
                     /\ IF outcome.kind = "raise"
                          THEN k_pc' = "aborted" /\ k_doc' = k_doc /\ k_remote' = k_remote
                          ELSE /\ k_pc' = "write"
                               /\ k_doc' = outcome.value
                               /\ k_remote' = k_remote \ {k_doc.key_hash}
       ELSE /\ k_pc' = "write"
            /\ UNCHANGED <<k_doc, k_remote, k_keys>>
    /\ UNCHANGED <<k_master_key, k_stored>>
    /\ UNCHANGED <<run_vars, mcp_vars, direct_vars, llm_vars, sales_vars, conc_vars, decide_vars, hook_vars, watchdog_vars>>

\* the document is written: the save succeeded
KeyWrite ==
    /\ k_pc = "write"
    /\ k_stored' = k_doc
    /\ k_pc' = "saved"
    /\ UNCHANGED <<k_master_key, k_doc, k_remote, k_keys>>
    /\ UNCHANGED <<run_vars, mcp_vars, direct_vars, llm_vars, sales_vars, conc_vars, decide_vars, hook_vars, watchdog_vars>>

\* the save has returned or has raised
KeyDone ==
    /\ k_pc \in {"saved", "aborted"}
    /\ k_pc' = "idle"
    /\ k_doc' = k_stored
    /\ UNCHANGED <<k_master_key, k_stored, k_remote, k_keys>>
    /\ UNCHANGED <<run_vars, mcp_vars, direct_vars, llm_vars, sales_vars, conc_vars, decide_vars, hook_vars, watchdog_vars>>

\* ------------------------------------------------------------------ specifications
Init == InitRun /\ InitMcp /\ InitDirect /\ InitLlm /\ InitSales /\ InitConc /\ InitDecide /\ InitHook /\ InitWatchdog /\ InitKey

Next ==
    \/ GetAiSettings
    \/ OpenaiResponsesCallPrepare
    \/ ResponsesCreate
    \/ FormatItem
    \/ Complete
    \/ Except

Spec == Init /\ [][Next]_vars

NextMcp ==
    \/ McpSend
    \/ McpReceive
    \/ McpDone

SpecMcp == Init /\ [][NextMcp]_vars

NextDirect ==
    \/ DirectDiscover
    \/ DirectLlmTurn
    \/ DirectLlmCall
    \/ DirectExecuteTool
    \/ DirectHalt

SpecDirect == Init /\ [][NextDirect]_vars

NextLlm ==
    \/ LlmInvoke
    \/ LlmAnswer
    \/ LlmDone

SpecLlm == Init /\ [][NextLlm]_vars

NextSales ==
    \/ IngestLookup
    \/ IngestEnqueue
    \/ \E w \in Workers : JobStart(w)
    \/ \E w \in Workers : JobLlm(w)
    \/ \E w \in Workers : JobSave(w)
    \/ \E w \in Workers : JobDeliver(w)
    \/ \E w \in Workers : JobExcept(w)
    \/ \E w \in Workers : JobEnd(w)

SpecSales == Init /\ [][NextSales]_vars

NextConc ==
    \/ \E r \in Runs : ConcPrepare(r)
    \/ \E r \in Runs : ConcCreate(r)
    \/ \E r \in Runs : ConcFormat(r)
    \/ \E r \in Runs : ConcComplete(r)
    \/ \E r \in Runs : ConcExcept(r)

SpecConc == Init /\ [][NextConc]_vars

NextDecide ==
    \/ DecideAsk
    \/ DecideParse
    \/ DecideExecute

SpecDecide == Init /\ [][NextDecide]_vars

NextHook ==
    \/ HookTriggered
    \/ HookReturned

SpecHook == Init /\ [][NextHook]_vars

NextWatchdog ==
    \/ WatchdogSetting
    \/ ProcessDies
    \/ \E j \in Invokers : WatchdogInvoke(j)
    \/ \E j \in Invokers : StopAllMcpProcesses(j)
    \/ \E j \in Invokers : WatchdogLookup(j)
    \/ \E j \in Invokers : WatchdogProbe(j)
    \/ \E j \in Invokers : StartNewMcpProcess(j)
    \/ \E j \in Invokers : WatchdogReturn(j)

SpecWatchdog == Init /\ [][NextWatchdog]_vars

NextKey ==
    \/ KeyConfigure
    \/ KeySave
    \/ BeforeSave
    \/ KeyWrite
    \/ KeyDone

SpecKey == Init /\ [][NextKey]_vars

\* ------------------------------------------------------------------ properties of the managed run
Returned == pc = "returned"

\* the steps recorded so far: the returned log once the run has returned,
\* before that log_container followed by the normalizer's log
Accumulated == initial_log \o fmt_log
ExecutionLog == IF Returned THEN result.log ELSE Accumulated

StatusEnum == {"running", "success", "error", "info"}

\* the output texts of the assistant messages of the trace
AssistantTexts ==
    {output[i].text : i \in {j \in 1..Len(output) :
        /\ output[j].type = "message"
        /\ output[j].role = "assistant"
        /\ output[j].content = "output_text"
        /\ output[j].text # NoneText}}

\* C2: run_tool_orchestration never raises to its caller; after a failure
\* of the settings lookup, the LLM call or the trace normalization it
\* returns a dict with exactly the keys log, final_response and error, and
\* error is true.
C2_NeverRaises ==
    /\ pc # "raised"
    /\ exc # NoExc => pc \in {"except", "returned"}
    /\ Returned /\ exc # NoExc =>
        /\ DOMAIN result = {"log", "final_response", "error"}
        /\ result.error = TRUE

C2_Witness == Returned /\ exc = "TypeError" /\ Len(fmt_log) >= 1

\* C6: the execution log's length never decreases within a run, and the
\* last entry of a returned log never has status running.
C6_LogMonotone ==
    /\ [][Len(ExecutionLog') >= Len(ExecutionLog)]_vars
    /\ [](Returned => result.log[Len(result.log)].status # "running")

\* C7: when an exception ends the run, the returned log keeps every step
\* accumulated before the failure, in order (a running last step becoming
\* an error step).
C7_FailureKeepsLog ==
    Returned /\ exc # NoExc =>
        /\ Len(result.log) >= Len(Accumulated)
        /\ \A i \in 1..Len(Accumulated) :
            /\ result.log[i].step = Accumulated[i].step
            /\ \/ result.log[i].status = Accumulated[i].status
               \/ Accumulated[i].status = "running" /\ result.log[i].status = "error"

\* C8 (as stated): every step of a returned log has a status among
\* running, success, error, info.
C8_StatusInEnum ==
    Returned => \A i \in 1..Len(result.log) : result.log[i].status \in StatusEnum

\* C8 (amended): every step of a returned log has a status among running,
\* success, error, info, except that the closing Orchestration Complete
\* step has status completed_with_errors when the run reports an error.
C8_StatusInEnumOrCompletedWithErrors ==
    Returned => \A i \in 1..Len(result.log) :
        \/ result.log[i].status \in StatusEnum
        \/ /\ i = Len(result.log)
           /\ result.log[i].step = <<"Orchestration Complete">>
           /\ result.log[i].status = "completed_with_errors"
           /\ result.error

C8_Witness ==
    /\ Returned
    /\ result.log[Len(result.log)].status = "completed_with_errors"
    /\ \E i \in 1..Len(result.log) : result.log[i].status = "success"

\* C9: the returned error flag is true exactly when some step of the
\* returned log has status error.
C9_ErrorIffErrorStep ==
    Returned => (result.error <=> \E i \in 1..Len(result.log) : result.log[i].status = "error")

C9_Witness ==
    /\ Returned
    /\ exc = NoExc
    /\ result.error
    /\ \E i \in 1..Len(result.log) : result.log[i].status = "success"

\* C10 (as stated): with no non-empty assistant text in the trace and no
\* error step the returned final_response is the default string; the
\* default is never returned when assistant text exists or a step has
\* status error.
C10_DefaultIffNoTextNoError ==
    Returned =>
        LET text == \E t \in AssistantTexts : t # <<>>
            err == \E i \in 1..Len(result.log) : result.log[i].status = "error"
        IN /\ ~text /\ ~err => result.final_response = DefaultMessage
           /\ text \/ err => result.final_response # DefaultMessage

\* C10 (amended): with no non-blank assistant text in the trace and no
\* error step the returned final_response is the non-empty default string;
\* the default is never returned when non-blank assistant text exists or a
\* step has status error.
C10_DefaultIffNoNonBlankTextNoError ==
    Returned =>
        LET text == \E t \in AssistantTexts : Strip(t) # <<>>
            err == \E i \in 1..Len(result.log) : result.log[i].status = "error"
        IN /\ DefaultMessage # <<>>
           /\ ~text /\ ~err => result.final_response = DefaultMessage
           /\ text \/ err => result.final_response # DefaultMessage

C10_Witness ==
    /\ Returned
    /\ exc = NoExc
    /\ Len(output) >= 1
    /\ result.final_response = DefaultMessage

\* whether the run got as far as calling the provider: the LLM Call step is
\* logged right before the call, and at "create" the call is still to come
ProviderCalled == initial_log # <<>> /\ pc # "create"

DiscoveryFailedAt(i) ==
    /\ output[i].type = "mcp_list_tools"
    /\ output[i].error \/ output[i].tools = <<>>

\* C12: when tool discovery fails or finds zero tools, the run returns
\* error = true with a final_response that is neither an assistant text nor
\* the default message, and no tool execution follows the discovery.
C12_DiscoveryFailureFatal ==
    Returned /\ exc = NoExc =>
        \A i \in 1..Len(output) :
            DiscoveryFailedAt(i) =>
                /\ result.error = TRUE
                /\ result.final_response # DefaultMessage
                /\ \A j \in (i + 1)..Len(output) : output[j].type # "mcp_call"

\* an assistant message carrying a non-blank text, without error
AssistantText(item) ==
    /\ item.type = "message"
    /\ item.role = "assistant"
    /\ item.content = "output_text"
    /\ item.text # NoneText
    /\ Strip(item.text) # <<>>
    /\ ~item.error

\* C13: when the only turn of the LLM is a text without tool call, the run
\* returns error = false, final_response is that text (as given or
\* stripped), and the log has no tool-execution step.
C13_TextOnlyTurn ==
    Returned /\ exc = NoExc /\ Len(output) = 1 /\ AssistantText(output[1]) =>
        /\ result.error = FALSE
        /\ result.final_response \in {output[1].text, Strip(output[1].text)}
        /\ ToolCalls(result.log) = 0

\* C14: when the LLM requests one tool, the tool succeeds and the next turn
\* is a text without tool call, the run returns error = false with that
\* text (as given or stripped) as final_response, and the log has a step
\* `Execute Tool: <name>` with status success before the assistant step.
C14_OneToolThenText ==
    /\ Returned
    /\ exc = NoExc
    /\ Len(output) = 2
    /\ output[1].type = "mcp_call"
    /\ ~output[1].error
    /\ AssistantText(output[2])
    => /\ result.error = FALSE
       /\ result.final_response \in {output[2].text, Strip(output[2].text)}
       /\ \E i, j \in 1..Len(result.log) :
            /\ i < j
            /\ result.log[i].step = <<"Execute Tool: ", output[1].name>>
            /\ result.log[i].status = "success"
            /\ result.log[j].step = <<"Assistant Message">>

\* the items of the trace that the claim gives a step: every item that is
\* not a message, and the assistant messages with non-blank text
Emits(item) ==
    item.type = "message" =>
        /\ item.role = "assistant"
        /\ item.content = "output_text"
        /\ \E i \in 1..Len(item.text) : item.text[i] \notin Whitespace

\* the positions of the emitting items among the items already normalized,
\* and the k-th of them in trace order
EmittingPositions == {i \in 1..(pos - 1) : Emits(output[i])}
EmittingPosition(k) ==
    CHOOSE i \in EmittingPositions : Cardinality({j \in EmittingPositions : j <= i}) = k

\* C25: the steps the normalizer has emitted are, in trace order, one step
\* for each item normalized so far that is a list-tools, tool-call or
\* unknown-type item or an assistant message with non-blank text, and no step
\* for any other item; the returned log holds them in that order between the
\* LLM Call step and the Orchestration Complete step.
C25_OrderPreservingFilteredMap ==
    /\ pc \in {"format", "returned"} =>
        /\ Len(fmt_log) = Cardinality(EmittingPositions)
        /\ \A k \in 1..Len(fmt_log) :
             LET item == output[EmittingPosition(k)] IN
                fmt_log[k] = Step(StepName(item), StepStatus(item), StepData(item))
    /\ pc = "returned" /\ exc = NoExc =>
        /\ pos = Len(output) + 1
        /\ SubSeq(result.log, Len(initial_log) + 1, Len(result.log) - 1) = fmt_log

C25_Witness ==
    /\ pc = "returned"
    /\ exc = NoExc
    /\ Len(output) = 3
    /\ output[1].type = "mcp_call"
    /\ output[2].type = "message" /\ ~Emits(output[2])
    /\ output[3].type = "message" /\ Emits(output[3])
    /\ Len(fmt_log) = 2
    /\ fmt_log[1].step = <<"Execute Tool: ", output[1].name>>
    /\ fmt_log[2].step = <<"Assistant Message">>

\* the characters of a text that are not whitespace, in order
RECURSIVE Squeeze(_)
Squeeze(text) ==
    IF text = <<>> THEN <<>>
    ELSE (IF Head(text) \in Whitespace THEN <<>> ELSE <<Head(text)>>) \o Squeeze(Tail(text))

\* the texts of the non-blank assistant messages of a trace, in trace order
RECURSIVE NonBlankAssistantTexts(_)
NonBlankAssistantTexts(trace) ==
    IF trace = <<>> THEN <<>>
    ELSE (IF Head(trace).type = "message" /\ Emits(Head(trace))
            THEN Head(trace).text ELSE <<>>)
         \o NonBlankAssistantTexts(Tail(trace))

\* C26: the final_response the normalizer returns is made of the texts of
\* the non-blank assistant messages of the trace in trace order, joined by
\* nothing but whitespace, with no other characters in it; it is empty
\* exactly when the trace has no non-blank assistant message.
C26_FinalResponseIsAssistantTexts ==
    Returned /\ exc = NoExc =>
        /\ Squeeze(Strip(final_response_text)) = Squeeze(NonBlankAssistantTexts(output))
        /\ Strip(final_response_text) = <<>> <=> NonBlankAssistantTexts(output) = <<>>

\* C27: in every result returned on the non-exception path the last entry of
\* the log is the Orchestration Complete step, no earlier entry is, and the
\* final_response in its data is the final_response of the result.
C27_CompletionStepMatchesResult ==
    Returned /\ exc = NoExc =>
        /\ result.log # <<>>
        /\ \A i \in 1..Len(result.log) :
             result.log[i].step = <<"Orchestration Complete">> <=> i = Len(result.log)
        /\ result.log[Len(result.log)].data.final_response = result.final_response

\* ------------------------------------------------------------------ properties of the Tool Gateway client
\* C5: a client call returns a response only when the response's id equals
\* the id of the request this call sent; a response with another id or
\* without id makes the call raise.
C5_IdCorrelation ==
    m_pc = "done" =>
        /\ m_outcome.kind = "return" =>
            /\ m_reply.kind = "json"
            /\ m_reply.id = m_request_id
            /\ m_request_id # NoId
            /\ m_outcome.value = m_reply
        /\ m_reply.kind = "json" /\ m_reply.id # m_request_id => m_outcome = MismatchedId

C5_Witness ==
    /\ m_pc = "done"
    /\ m_method = "tools/call"
    /\ m_reply.kind = "json"
    /\ m_reply.id = NoId
    /\ m_outcome.kind = "raise"

\* C15: a client call sends at most one HTTP request, and a request that
\* fails (timeout, refused connection, non-2xx status, body that is not
\* JSON, envelope with another id) makes the call raise after that one
\* request: it is not sent again.
C15_OnePostNoRetry ==
    /\ m_posts <= 1
    /\ m_pc = "done" /\ m_reply # NoReply /\ FailureKind(m_request_id, m_reply) # None =>
        /\ m_outcome.kind = "raise"
        /\ m_posts = 1

C15_Witness ==
    /\ m_pc = "done"
    /\ m_reply.kind = "timeout"
    /\ m_outcome.kind = "raise"
    /\ m_posts = 1

\* C16: failures of different kinds are raised as exceptions of different
\* classes; in particular the class raised for an id mismatch is not the
\* class raised for a refused connection.
C16_DistinctErrorKinds ==
    \A a, b \in m_surfaced : a.failure # b.failure => a.class # b.class

C17_AuthErrorDistinguished ==
    \A a, b \in l_surfaced :
        /\ a.fn = b.fn
        /\ a.http.kind = "response" /\ a.http.status = 401
        /\ b.http.kind = "response" /\ b.http.status # 401
        => a.error # b.error

\* C21: every request to an LLM provider carries an explicit timeout, and
\* a call sends its request once only, a timed-out one included.
C21_ExplicitTimeout ==
    /\ l_posts <= 1
    /\ l_posts >= 1 => l_timeout # NoTimeout

\* C28: a call made while key_provisioned is unset sends no request to the
\* provider and ends by raising.
C28_NoRequestWithoutKey ==
    /\ ~l_key => l_posts = 0
    /\ l_pc = "done" /\ ~l_key => l_outcome.kind = "raise"

C28_Witness ==
    /\ l_pc = "done"
    /\ l_fn = "run_model_test"
    /\ ~l_key
    /\ l_posts = 0
    /\ l_outcome.kind = "raise"

\* ------------------------------------------------------------------ properties of concurrent runs
\* what a run returns when it runs alone, from its own inputs
RECURSIVE SoloSteps(_)
SoloSteps(out) ==
    IF out = <<>> THEN <<>>
    ELSE (IF Logged(Head(out))
            THEN <<Step(StepName(Head(out)), StepStatus(Head(out)), StepData(Head(out)))>>
            ELSE <<>>) \o SoloSteps(Tail(out))

RECURSIVE SoloText(_)
SoloText(out) ==
    IF out = <<>> THEN <<>>
    ELSE (IF Head(out).type = "message" /\ Logged(Head(out))
            THEN TextContent(Head(out)) \o Separator
            ELSE <<>>) \o SoloText(Tail(out))

SoloFailure(message) ==
    [log |-> <<Step(<<"Orchestration Failed">>, "error", [error |-> message])>>,
     final_response |-> <<"**Orchestration Failed**\n\nAn unhandled error occurred: ", message>>,
     error |-> TRUE]

SoloResult(run) ==
    IF ~run.configured THEN SoloFailure("OpenAI API key is not set in AI Settings.")
    ELSE IF run.api_error THEN SoloFailure("APIError")
    ELSE IF \E i \in 1..Len(run.output) : FormatRaises(run.output[i])
      THEN SoloFailure("TypeError")
    ELSE LET log == <<LlmCallStep>> \o SoloSteps(run.output)
             text == Strip(SoloText(run.output))
             has_error == \E i \in 1..Len(log) : log[i].status = "error"
         IN [log |-> Append(log,
                        Step(<<"Orchestration Complete">>,
                             IF has_error THEN "completed_with_errors" ELSE "success",
                             [total_steps |-> Len(log), tool_calls |-> ToolCalls(log),
                              final_response |-> text])),
             final_response |-> IF text = <<>> /\ ~has_error THEN DefaultMessage ELSE text,
             error |-> has_error]

\* C22: whatever the interleaving with the other run, a run that has
\* returned has returned what it returns alone for its own settings
\* outcome and its own provider answer: no step and no text of the other
\* run is in its log or final_response.
C22_RunsIndependent ==
    \A r \in Runs : c_runs[r].pc = "returned" => c_results[r] = SoloResult(c_runs[r])

\* one run has returned a four-step log while the other is in the middle
\* of normalizing its own trace
C22_Witness ==
    /\ c_runs["r1"].pc = "returned"
    /\ c_runs["r1"].exc = NoExc
    /\ Len(c_results["r1"].log) = 4
    /\ c_runs["r2"].pc = "format"
    /\ c_runs["r2"].pos = 2
    /\ Len(c_lists["r2"]) = 2

\* ------------------------------------------------------------------ properties of the decide-then-execute run
\* the texts that are a valid decision on their own
BareDecisions == {<<"{", "ping", "}">>, <<"{", "ping", "{", "}", "}">>, <<"{", "none", "}">>}

\* text is the decision json with prose or fences, and no brace, around it
WrappedIn(text, json) ==
    \E a \in 1..Len(text) :
        /\ a + Len(json) - 1 <= Len(text)
        /\ SubSeq(text, a, a + Len(json) - 1) = json
        /\ \A i \in 1..Len(text) :
             i < a \/ i > a + Len(json) - 1 => text[i] \notin {"{", "}"}

\* C24: once the decision is parsed, it is the decision the part of the
\* output from its first `{` to its last `}` parses to, so an output that
\* wraps a valid decision in prose or fences gives the decision of the bare
\* JSON; when that part does not parse, no tool is invoked and the run
\* returns error = true with the explanatory final_response.
C24_DecisionExtraction ==
    x_pc \in {"execute", "returned"} =>
        /\ \A json \in BareDecisions :
             WrappedIn(x_output, json) =>
                x_decision.ok /\ x_decision = ParseDecision(json)
        /\ ~x_decision.ok =>
             /\ x_rpc = 0
             /\ x_pc = "returned"
             /\ x_result.error = TRUE
             /\ x_result.final_response = ParseFailureMessage

C24_Witness ==
    /\ x_pc = "returned"
    /\ x_output = <<"Sure!", "fence", "{", "ping", "}">>
    /\ x_decision = Decision(TRUE, "ping")
    /\ x_rpc = 1

\* ------------------------------------------------------------------ properties of the communication hook
\* the last message entry of the content carries the sender `You`
LatestSentByYou(content) ==
    /\ content.set
    /\ content.entries # <<>>
    /\ \E i \in 1..Len(content.entries[Len(content.entries)].sender) :
         content.entries[Len(content.entries)].sender[i] = "You"

C33_AtMostOneToolServer ==
    /\ Cardinality(RunningDocs) <= 1
    /\ Cardinality(p_alive) <= 1

\* C34: a run of the enabled watchdog that found the recorded Running
\* process dead has, when it returns, marked that record Error and tried to
\* start a replacement, and no record with status Running then refers to a
\* dead process; a run that found the recorded process alive changes neither
\* the records nor the processes.
C34_DeadProcessReplaced ==
    [][\A j \in Invokers :
        /\ p_jobs[j].found = "dead" /\ p_jobs[j].pc = "start" /\ p_jobs'[j].pc = "done" =>
            /\ p_records'[p_jobs[j].doc].status = "Error"
            /\ p_jobs'[j].returned # "none"
            /\ \A d \in DOMAIN p_records' :
                 p_records'[d].status = "Running" => p_records'[d].pid \in p_alive'
        /\ p_jobs[j].pc = "probe" /\ p_jobs'[j].found = "alive" =>
            /\ p_jobs'[j].pc = "done"
            /\ p_records' = p_records
            /\ p_alive' = p_alive]_vars

\* C35: when start_new_mcp_process has returned None, a process that call
\* launched is alive only if a record with status Running and its pid exists.
C35_NoOrphanOnFailure ==
    \A j \in Invokers :
        p_jobs[j].pc = "done" /\ p_jobs[j].returned = "None" /\ p_jobs[j].launched # NoPid =>
            (p_jobs[j].launched \in p_alive =>
                \E d \in RunningDocs : p_records[d].pid = p_jobs[j].launched)

\* ------------------------------------------------------------------ properties of AI Setting
\* C36: every step that completes a save of AI Setting stores
\* key_provisioned equal to enable_openrouter, with a non-empty site_api_key
\* and key_hash when key_provisioned is set; every step in which before_save
\* throws leaves key_provisioned, key_hash, site_api_key and
\* openrouter_user_id as they were, in the stored setting and in the
\* document.
C36_KeyProvisionedMatchesEnable ==
    [][/\ k_pc' = "saved" /\ k_pc # "saved" =>
            /\ k_stored'.key_provisioned = k_stored'.enable_openrouter
            /\ k_stored'.key_provisioned =>
                 k_stored'.site_api_key # NoKey /\ k_stored'.key_hash # NoKey
       /\ k_pc' = "aborted" /\ k_pc # "aborted" =>
            /\ k_stored' = k_stored
            /\ k_doc'.key_provisioned = k_stored.key_provisioned
            /\ k_doc'.key_hash = k_stored.key_hash
            /\ k_doc'.site_api_key = k_stored.site_api_key
            /\ k_doc'.openrouter_user_id = k_stored.openrouter_user_id]_vars

\* a second key was provisioned and saved after the first was deleted
C36_Witness ==
    /\ k_pc = "saved"
    /\ k_stored.enable_openrouter
    /\ k_stored.key_provisioned
    /\ k_stored.key_hash = 2
    /\ k_remote = {2}

\* ------------------------------------------------------------------ properties of the sales conversation
\* the messages of the stored history of a document
Stored(d) == s_docs[d].conversation_history.messages

C19_AtMostOneInFlight ==
    \A w1, w2 \in Workers :
        /\ w1 # w2
        /\ s_jobs[w1].pc # "idle"
        /\ s_jobs[w2].pc # "idle"
        => s_jobs[w1].docname # s_jobs[w2].docname

\* C20: a job whose delivery of the reply failed does not enter the handler
\* of failed runs, the failure is logged, the history it saved is still
\* stored, and the customer is not sent the apology of a failed run.
C20_DeliveryFailureContained ==
    \A w \in Workers :
        s_jobs[w].failed = "delivery" =>
            /\ s_jobs[w].pc # "except"
            /\ SubSeq(Stored(s_jobs[w].docname), 1, Len(s_jobs[w].history)) = s_jobs[w].history
            /\ s_jobs[w].pc = "finished" =>
                /\ \E e \in s_errors : e.docname = s_jobs[w].docname
                /\ \A i \in 1..Len(s_sent) :
                     ~(s_sent[i].docname = s_jobs[w].docname /\ s_sent[i].by = "except")

\* C29: a process_message job that ends without having entered its except
\* clause has delivered exactly one reply to the customer, through a
\* successful send tool call of the AI or through the fallback send.
C29_ExactlyOneReply ==
    \A w \in Workers :
        s_jobs[w].pc = "finished" /\ s_jobs[w].failed = None =>
            s_jobs[w].delivered = 1

\* C30: every step of a process_message job whose LLM call or reply
\* extraction raised leaves the stored conversation_history and
\* last_interaction of its conversation unchanged; when it ends, its user
\* message is in no stored history, no reply of it was saved and at most one
\* apology was sent.
C30_LlmFailureLeavesDocument ==
    [][\A w \in Workers :
        /\ s_jobs[w].failed = "llm" \/ s_jobs'[w].failed = "llm"
        /\ s_jobs'[w] # s_jobs[w]
        =>
            LET d == s_jobs[w].docname IN
            /\ s_docs'[d].conversation_history = s_docs[d].conversation_history
            /\ s_docs'[d].last_interaction = s_docs[d].last_interaction
            /\ s_jobs'[w].pc = "finished" =>
                /\ s_jobs'[w].apologies <= 1
                /\ \A d2 \in DOMAIN s_docs' :
                     \A i \in 1..Len(s_docs'[d2].conversation_history.messages) :
                        s_docs'[d2].conversation_history.messages[i].content
                            # s_jobs[w].user_message]_vars

\* a job whose LLM call raised has ended after sending the apology, with a
\* history stored from an earlier message of the conversation
C30_Witness ==
    \E w \in Workers :
        /\ s_jobs[w].pc = "finished"
        /\ s_jobs[w].failed = "llm"
        /\ s_jobs[w].apologies = 1
        /\ Len(Stored(s_jobs[w].docname)) = 2
        /\ s_docs[s_jobs[w].docname].last_interaction # NoTime

\* C32: however the ingest_message calls interleave, no two Sales
\* Conversation documents with status Ongoing have the same channel and
\* customer identifier.
C32_OneOngoingPerCustomer ==
    \A d1, d2 \in DOMAIN s_docs :
        /\ s_docs[d1].status = "Ongoing"
        /\ s_docs[d2].status = "Ongoing"
        /\ s_docs[d1].channel = s_docs[d2].channel
        /\ s_docs[d1].customer_identifier = s_docs[d2].customer_identifier
        => d1 = d2

\* ------------------------------------------------------------------ properties of the direct loop
DirectReturned == d_pc = "returned"

AssistantTurns == {i \in 1..Len(d_messages) : d_messages[i].role = "assistant"}
ToolMessages == {i \in 1..Len(d_messages) : d_messages[i].role = "tool"}

\* the tool-result messages that answer the call `id`
Answers(id) == {j \in ToolMessages : d_messages[j].tool_call_id = id}

\* the assistant turn a message at index j belongs to
TurnOf(j) == CHOOSE i \in AssistantTurns : i < j /\ \A h \in AssistantTurns : h < j => h <= i

\* every turn so far was answered by the LLM with a tool call
AlwaysToolCalls ==
    /\ d_turn >= 1
    /\ Cardinality(AssistantTurns) = d_turn
    /\ \A i \in AssistantTurns : d_messages[i].tool_calls # <<>>

\* C1: a run of the direct loop with turn budget N sends at most N LLM
\* requests; when the LLM asks for a tool call on every turn the run does
\* not stop before turn N and returns after it with error = true and a
\* non-empty final_response.
C1_TurnBound ==
    /\ d_turn <= MaxTurns
    /\ d_llm_posts <= MaxTurns
    /\ ~DirectReturned => ENABLED NextDirect
    /\ DirectReturned /\ AlwaysToolCalls =>
        /\ d_turn = MaxTurns
        /\ d_result.error = TRUE
        /\ d_result.final_response # <<>>

C1_Witness ==
    /\ DirectReturned
    /\ AlwaysToolCalls
    /\ d_llm_posts = MaxTurns

\* C3: no ToolCallRequest is answered twice and no tool-result message
\* answers anything but a request of the latest assistant turn; when the
\* next LLM call is issued every ToolCallRequest so far has exactly one
\* tool-result message with its call id, placed after its assistant turn
\* and before the following one.
C3_OneResultPerRequest ==
    /\ \A i \in AssistantTurns : \A k \in 1..Len(d_messages[i].tool_calls) :
        LET id == d_messages[i].tool_calls[k].id IN
        /\ Cardinality(Answers(id)) <= 1
        /\ d_pc \in {"llm", "calling"} => Cardinality(Answers(id)) = 1
        /\ \A j \in Answers(id) : j > i /\ TurnOf(j) = i
    /\ \A j \in ToolMessages :
        /\ \E i \in AssistantTurns : i < j
        /\ \E k \in 1..Len(d_messages[TurnOf(j)].tool_calls) :
            d_messages[TurnOf(j)].tool_calls[k].id = d_messages[j].tool_call_id

C3_Witness ==
    /\ d_pc = "calling"
    /\ d_turn = 2
    /\ d_failed # {}
    /\ \E i \in AssistantTurns : Len(d_messages[i].tool_calls) = 2
    /\ Cardinality(ToolMessages) = 2

====
